---------------------------- MODULE Spec2Model ----------------------------
(***************************************************************************)
(* Model of the export pipeline of ArunaJ7/Exports:                        *)
(*   - the two task dispatchers (export/task_processor.py process_tasks    *)
(*     and manipulation/task_manager.py TaskManager.execute_tasks),        *)
(*   - the export functions (export/_20_incident.py and its siblings).     *)
(*                                                                         *)
(* Python values are represented as follows.                               *)
(*   None            the string None below (no input string collides)      *)
(*   datetime        [days |-> proleptic ordinal, secs |-> second of day]  *)
(*   dict            a function whose DOMAIN is the set of keys            *)
(*   f-string        a tuple of its literal and interpolated parts         *)
(***************************************************************************)
EXTENDS Integers, Sequences, FiniteSets, TLC

None == "<None>"

(***************************************************************************)
(* Bounds of the model.                                                    *)
(***************************************************************************)
MaxTasks == 2
MaxRecords == 1
MaxCalls == 2
MaxConcurrentTasks == 1
MaxThreads == 3
MaxMicro == 1
MaxSecond == 1

(***************************************************************************)
(* datetime.strptime(s, '%Y-%m-%d'), timedelta arithmetic and comparison.  *)
(***************************************************************************)
\* The lexical split of the date strings used as inputs: the three integer
\* fields strptime reads for '%Y-%m-%d'.  A string outside the domain does
\* not match the format.
DateFields ==
  [s \in {"2024-12-31", "2025-01-01", "2025-01-31", "2025-02-30"} |->
     CASE s = "2024-12-31" -> <<2024, 12, 31>>
       [] s = "2025-01-01" -> <<2025, 1, 1>>
       [] s = "2025-01-31" -> <<2025, 1, 31>>
       [] s = "2025-02-30" -> <<2025, 2, 30>>]

DateStrings == DOMAIN DateFields \cup {"31/01/2025", ""}

IsLeap(y) == (y % 4 = 0) /\ ((y % 100 # 0) \/ (y % 400 = 0))

DaysInMonth(y, m) ==
  IF m = 2 THEN (IF IsLeap(y) THEN 29 ELSE 28)
  ELSE IF m \in {4, 6, 9, 11} THEN 30 ELSE 31

RECURSIVE DaysBeforeMonth(_, _)
DaysBeforeMonth(y, m) ==
  IF m = 1 THEN 0 ELSE DaysBeforeMonth(y, m - 1) + DaysInMonth(y, m - 1)

DaysBeforeYear(y) ==
  (y - 1) * 365 + ((y - 1) \div 4) - ((y - 1) \div 100) + ((y - 1) \div 400)

Ordinal(y, m, d) == DaysBeforeYear(y) + DaysBeforeMonth(y, m) + d

\* strptime: TRUE iff the string parses (otherwise strptime raises ValueError)
Parses(s) ==
  /\ s \in DOMAIN DateFields
  /\ LET f == DateFields[s]
     IN  /\ f[1] \in 1..9999
         /\ f[2] \in 1..12
         /\ f[3] \in 1..DaysInMonth(f[1], f[2])

strptime(s) ==
  LET f == DateFields[s] IN [days |-> Ordinal(f[1], f[2], f[3]), secs |-> 0]

\* datetime + timedelta(days=dd, seconds=ds), normalised as Python does
AddDelta(dt, dd, ds) ==
  LET total == dt.secs + ds
  IN  [days |-> dt.days + dd + (IF total < 0 THEN -1 ELSE total \div 86400),
       secs |-> total % 86400]

DtLess(a, b) == (a.days < b.days) \/ (a.days = b.days /\ a.secs < b.secs)

\* datetime(y, m, d, hh, mi, ss)
Datetime(y, m, d, hh, mi, ss) ==
  [days |-> Ordinal(y, m, d), secs |-> hh * 3600 + mi * 60 + ss]

(***************************************************************************)
(* dict helpers                                                            *)
(***************************************************************************)
EmptyDict == [k \in {} |-> None]

Put(q, k, v) == [x \in (DOMAIN q) \cup {k} |-> IF x = k THEN v ELSE q[x]]

\* The three predicate shapes of a query: field: value, field: {"$regex":
\* f"^{value}$"} and field: {"$gte": lo, "$lte": hi}.
Eq(v) == [op |-> "eq", value |-> v]
Regex(v) == [op |-> "regex", pattern |-> <<"^", v, "$">>]
Range(lo, hi) == [op |-> "range", gte |-> lo, lte |-> hi]
In(list) == [op |-> "in", list |-> list]


(***************************************************************************)
(* export/_20_incident.py                                                  *)
(***************************************************************************)
NoError == <<>>

\* A stage of the try block: st carries the query built so far and the
\* exception raised so far (NoError when none).
Raise(st, kind, msg) == [st EXCEPT !.err = <<kind>> \o msg]

\* IncidentActionStage without the else branch of lines 120-121
IncidentActionStageNoElse(st, action_type) ==
  IF action_type = None THEN st
  ELSE IF action_type = "collect arrears and CPE"
       THEN [st EXCEPT !.query = Put(@, "Actions", Regex(action_type))]
  ELSE [st EXCEPT !.query = Put(@, "Actions", Eq(action_type))]

IncidentActionStage(st, action_type) ==
  IF action_type = None THEN st
  ELSE IF action_type = "collect arrears and CPE"
       THEN [st EXCEPT !.query = Put(@, "Actions", Regex(action_type))]
  ELSE IF action_type = "collect arrears"
       THEN [st EXCEPT !.query = Put(@, "Actions", Eq(action_type))]
  ELSE IF action_type = "collect CPE"
       THEN [st EXCEPT !.query = Put(@, "Actions", Eq(action_type))]
  ELSE Raise(st, "ValueError", <<"Invalid action_type", action_type>>)

\* IncidentStatusStage assigning a new query instead of adding a key to it
IncidentStatusStageOverwrite(st, status) ==
  IF st.err # NoError \/ status = None THEN st
  ELSE IF status = "Incident Open"
       THEN [st EXCEPT !.query = Put(EmptyDict, "Incident_Status",
                                      Regex(status))]
  ELSE IF status \in {"Reject", "Complete", "Incident Error",
                      "Incident Inprogress"}
       THEN [st EXCEPT !.query = Put(EmptyDict, "Incident_Status",
                                      Eq(status))]
  ELSE Raise(st, "ValueError", <<"Invalid status", status>>)

IncidentStatusStage(st, status) ==
  IF st.err # NoError \/ status = None THEN st
  ELSE IF status = "Incident Open"
       THEN [st EXCEPT !.query = Put(@, "Incident_Status", Regex(status))]
  ELSE IF status \in {"Reject", "Complete", "Incident Error",
                      "Incident Inprogress"}
       THEN [st EXCEPT !.query = Put(@, "Incident_Status", Eq(status))]
  ELSE Raise(st, "ValueError", <<"Invalid status", status>>)

\* DateRangeStage with to_dt left at midnight (line 146 without the
\* timedelta terms)
DateRangeStageMidnight(st, field, from_date, to_date) ==
  IF st.err # NoError \/ from_date = None \/ to_date = None THEN st
  ELSE IF ~Parses(from_date) \/ ~Parses(to_date)
       THEN Raise(st, "ValueError", <<"Invalid date format. Use 'YYYY-MM-DD'.">>)
  ELSE LET from_dt == strptime(from_date)
           to_dt == strptime(to_date)
       IN  IF DtLess(to_dt, from_dt)
           THEN Raise(st, "ValueError",
                      <<"to_date cannot be earlier than from_date">>)
           ELSE [st EXCEPT !.query = Put(@, field, Range(from_dt, to_dt)),
                           !.from_dt = <<from_dt>>, !.to_dt = <<to_dt>>,
                           !.bound = TRUE]

\* The date block shared by the export functions: both dates must be given
\* for it to run; it binds from_dt and to_dt (<<>> while unbound, <<dt>> once
\* bound).
DateRangeStage(st, field, from_date, to_date) ==
  IF st.err # NoError \/ from_date = None \/ to_date = None THEN st
  ELSE IF ~Parses(from_date) \/ ~Parses(to_date)
       THEN Raise(st, "ValueError", <<"Invalid date format. Use 'YYYY-MM-DD'.">>)
  ELSE LET from_dt == strptime(from_date)
           to_dt == AddDelta(AddDelta(strptime(to_date), 1, 0), 0, -1)
       IN  IF DtLess(to_dt, from_dt)
           THEN Raise(st, "ValueError",
                      <<"to_date cannot be earlier than from_date">>)
           ELSE [st EXCEPT !.query = Put(@, field, Range(from_dt, to_dt)),
                           !.from_dt = <<from_dt>>, !.to_dt = <<to_dt>>,
                           !.bound = TRUE]

InitialStage ==
  [query |-> EmptyDict, err |-> NoError, bound |-> FALSE,
   from_dt |-> <<>>, to_dt |-> <<>>]

\* The sheet layout every create_*_table function builds.  A filters dict is
\* a function from its keys to their values; None and {} are both falsy and
\* both EmptyDict here.  A string filter is None or a string, an integer
\* filter <<>> or <<n>>, a date_range a pair of optional datetimes.
Truthy(v) == v # None /\ v # ""

\* One filter row of a renderer: the key it reads, the label it writes in
\* column 2, and the test that guards it ("truthy": if filters.get(key);
\* "notnone": if filters.get(key) is not None; "nonempty": if
\* filters.get(key) of a list; "daterange": if filters.get(key) and
\* any(filters[key]); "always": no test).
FilterRule(key, label, test) == [key |-> key, label |-> label, test |-> test]

Shows(rule, filters) ==
  IF rule.test = "always" THEN TRUE
  ELSE IF rule.key \notin DOMAIN filters THEN FALSE
  ELSE IF rule.test = "truthy" THEN Truthy(filters[rule.key])
  ELSE IF rule.test \in {"notnone", "nonempty"}
  THEN filters[rule.key] # <<>>
  ELSE \E i \in 1..2 : filters[rule.key][i] # <<>>

\* filters[key] of a row written without a test raises KeyError: the index
\* of the first such row whose key filters lacks, 0 when there is none.
FilterKeyError(rules, filters) ==
  LET failing == {i \in 1..Len(rules) :
                    rules[i].test = "always"
                    /\ rules[i].key \notin DOMAIN filters}
  IN  IF failing = {} THEN 0
      ELSE CHOOSE i \in failing : \A k \in failing : i <= k

\* Rows: 1 the title; with filters, a blank row, the filter rows from row 3
\* and a blank row; the header row; one row per record.  autofilter is
\* "header" (ref set to the header row whatever the data) or "data" (ref set
\* from the header row to the last data row, only if data).  auto_filter is
\* <<>> when no ref is set, else <<first row, last row>>; its columns are
\* always the first to the last declared column.  A KeyError in the filter
\* block is caught by the renderer, which returns False: the sheet keeps the
\* title and the labels written up to the row that raised, with no header
\* row (header_row 0), no data row and no autofilter.
CreateTable(rules, autofilter, ndata, filters) ==
  LET given == DOMAIN filters # {}
      failed == IF given THEN FilterKeyError(rules, filters) ELSE 0
      reached == IF failed = 0 THEN rules ELSE SubSeq(rules, 1, failed)
      shown == IF given THEN SelectSeq(reached, LAMBDA r : Shows(r, filters))
               ELSE <<>>
      header_row == IF given THEN 1 + 1 + 1 + Len(shown) + 1 ELSE 1 + 1
      row_idx == header_row + ndata
      filter_rows == [i \in 1..Len(shown) |->
                        [row |-> 2 + i, key |-> shown[i].key,
                         label |-> shown[i].label]]
  IN  IF failed # 0
      THEN [ok |-> FALSE, title_row |-> 1, filter_rows |-> filter_rows,
            header_row |-> 0, data_rows |-> 0, auto_filter |-> <<>>]
      ELSE [ok |-> TRUE, title_row |-> 1, filter_rows |-> filter_rows,
            header_row |-> header_row, data_rows |-> ndata,
            auto_filter |-> IF autofilter = "header"
                            THEN <<header_row, header_row>>
                            ELSE IF ndata > 0 THEN <<header_row, row_idx>>
                            ELSE <<>>]

\* The filter rows create_incident_table writes, in order.
IncidentFilterRows ==
  <<FilterRule("action", "Action:", "truthy"),
    FilterRule("status", "Status:", "truthy"),
    FilterRule("date_range", "Date Range:", "daterange")>>

\* create_incident_table writing every filter row without testing its value
create_incident_table_untested(ndata, filters) ==
  CreateTable(<<FilterRule("action", "Action:", "always"),
                FilterRule("status", "Status:", "always"),
                FilterRule("date_range", "Date Range:", "always")>>,
              "header", ndata, filters)

\* create_incident_table: the layout of the sheet it builds.
create_incident_table(ndata, filters) ==
  CreateTable(IncidentFilterRows, "header", ndata, filters)

(***************************************************************************)
(* The renderers of the other report types                                 *)
(***************************************************************************)
DateRangeRule == FilterRule("date_range", "Date Range:", "daterange")

DrcRuleRule == FilterRule("drc_commision_rule", "DRC Commission Rule:", "truthy")

\* _23_direct_lod.py
create_direct_lod_table(ndata, filters) ==
  CreateTable(<<FilterRule("task_id", "Task ID:", "truthy"),
                FilterRule("incident_status", "Incident Status:", "always"),
                DrcRuleRule, DateRangeRule>>,
              "data", ndata, filters)

\* _30_drc_assign_batch_approval_list.py
create_drc_assign_batch_approval_table(ndata, filters) ==
  CreateTable(<<FilterRule("approver_ref", "Approver Reference:", "truthy")>>,
              "header", ndata, filters)

\* _33_drc_assign_manager_approval_list.py
create_approval_table(ndata, filters) ==
  CreateTable(<<FilterRule("approval_type", "Approval Type:", "truthy"),
                DateRangeRule>>,
              "data", ndata, filters)

\* case_distribution_drc_summary_drc_id.py
create_drc_summary_table(ndata, filters) ==
  CreateTable(<<FilterRule("task_id", "Task ID:", "truthy"),
                FilterRule("drc", "DRC:", "truthy"),
                FilterRule("case_distribution_batch_id",
                           "Case Distribution Batch ID:", "notnone")>>,
              "header", ndata, filters)

\* case_distribution_drc_transaction_batch_list.py
create_distribution_table(ndata, filters) ==
  CreateTable(<<FilterRule("arrears_band", "Arrears Band:", "truthy"),
                FilterRule("drc_rule", "DRC Commission Rule:", "truthy"),
                DateRangeRule>>,
              "header", ndata, filters)

\* cpe_list.py
create_cpe_table(ndata, filters) ==
  CreateTable(<<FilterRule("action", "Action:", "always"),
                DrcRuleRule, DateRangeRule>>,
              "data", ndata, filters)

\* request_log.py
create_request_table(ndata, filters) ==
  CreateTable(<<FilterRule("delegate_user_id", "Delegate User ID:", "truthy"),
                FilterRule("interaction_type", "Interaction Type:", "truthy"),
                FilterRule("request_accept", "Request Status:", "truthy"),
                DateRangeRule>>,
              "header", ndata, filters)

\* request_response_log_list.py
create_case_table(ndata, filters) ==
  CreateTable(<<FilterRule("status", "Status:", "truthy"), DateRangeRule>>,
              "header", ndata, filters)

\* each_lod_or_final_remider_case.py
create_rejected_table(ndata, filters) ==
  CreateTable(<<FilterRule("actions", "Actions:", "truthy"),
                DrcRuleRule, DateRangeRule>>,
              "data", ndata, filters)

\* pending_reject_list.py; drc_commission_rules is a list
create_pending_reject_incident_table(ndata, filters) ==
  CreateTable(<<FilterRule("drc_commission_rules", "DRC Commission Rules:",
                           "nonempty"),
                DateRangeRule>>,
              "header", ndata, filters)

\* _40_each_lod_or_final_remider_case.py: the function reads
\* REJECTED_HEADERS, a name the module does not define (its list of headers
\* is Each_LOD_OR_FINAL_REMINDER_HEADERS), when it merges the cells of the
\* title: NameError, caught by the renderer, which returns False with a
\* sheet that has no cell written.
create_each_lod_or_final_reminder_table(ndata, filters) ==
  [ok |-> FALSE, title_row |-> 0, filter_rows |-> <<>>,
   header_row |-> 0, data_rows |-> 0, auto_filter |-> <<>>]

\* _21_incident_open.py: create_incident_open_distribution_table(wb, data)
\* takes no filters; the header is two rows below the title.
create_incident_open_distribution_table(ndata) ==
  [ok |-> TRUE, title_row |-> 1, filter_rows |-> <<>>,
   header_row |-> 1 + 2, data_rows |-> ndata,
   auto_filter |-> <<1 + 2, 1 + 2>>]

\* No sheet: the renderer was not called.
NoSheet ==
  [ok |-> FALSE, title_row |-> 0, filter_rows |-> <<>>, header_row |-> 0,
   data_rows |-> 0, auto_filter |-> <<>>]

\* What one call of an export function did: its return value, the exception
\* it caught, and its effects in order of occurrence.  audits are the inserts
\* into file_download_log, downloads the inserts into download; handler_ret is
\* what the task handler that made the call returned ("" without handler);
\* filters and sheet are the argument and the result of the renderer.
Outcome(ret, err, dir, db, queries, files, audits) ==
  [ret |-> ret, err |-> err, dir_created |-> dir, db_accessed |-> db,
   queries |-> queries, files |-> files, audits |-> audits,
   downloads |-> <<>>, handler_ret |-> "",
   rendered |-> FALSE, filters |-> EmptyDict, sheet |-> NoSheet]

WithDownloads(o, records) == [o EXCEPT !.downloads = records]

\* The outcome of a call whose create_*_table call was given filters and
\* built sheet.
WithSheet(o, filters, sheet) ==
  [o EXCEPT !.rendered = TRUE, !.filters = filters, !.sheet = sheet]

\* "date_range": (datetime.strptime(from_date, '%Y-%m-%d') if from_date
\*                else None, ...): one end of the pair
FilterDate(s) == IF s = None \/ s = "" THEN <<>> ELSE <<strptime(s)>>

\* excel_incident_detail(action_type, status, from_date, to_date) run against
\* a collection in which nrec documents match, at clock reading now; auditOk
\* tells whether the insert into file_download_log succeeds.
excel_incident_detail(action_type, status, from_date, to_date, nrec, now, auditOk) ==
  LET st == DateRangeStage(
              IncidentStatusStage(
                IncidentActionStage(InitialStage, action_type), status),
              "Created_Dtm", from_date, to_date)
      \* from_dt / to_dt are read although the date block did not run
      unbound == ~st.bound /\ (from_date # None \/ to_date # None)
      filename == <<"incidents_details_", now.s, now.us, ".xlsx">>
      filters == [action |-> action_type, status |-> status,
                  date_range |-> <<st.from_dt, st.to_dt>>]
      sheet == create_incident_table(nrec, filters)
      record == [File_Name |-> filename,
                 Exported_Record_Count |-> nrec,
                 Applied_Filters |-> [Action |-> action_type,
                                      Status |-> status,
                                      From_Date |-> from_date,
                                      To_Date |-> to_date]]
  IN  IF st.err # NoError
      THEN Outcome(FALSE, st.err, TRUE, TRUE, <<>>, <<>>, <<>>)
      ELSE IF unbound
      THEN Outcome(FALSE, <<"UnboundLocalError">>, TRUE, TRUE,
                   <<st.query>>, <<>>, <<>>)
      ELSE IF ~sheet.ok
      THEN Outcome(FALSE, <<"Exception", "Failed to create incident sheet">>,
                   TRUE, TRUE, <<st.query>>, <<>>, <<>>)
      ELSE WithSheet(
             Outcome(TRUE, NoError, TRUE, TRUE, <<st.query>>,
                     <<[name |-> filename, rows |-> nrec]>>,
                     IF auditOk THEN <<record>> ELSE <<>>),
             filters, sheet)

(***************************************************************************)
(* export/_33_drc_assign_manager_approval_list.py                          *)
(***************************************************************************)
ApprovalTypeStage(st, approval_type) ==
  IF approval_type = None THEN st
  ELSE IF approval_type = "a1"
       THEN [st EXCEPT !.query = Put(@, "approval_type", Regex(approval_type))]
  ELSE IF approval_type = "a2"
       THEN [st EXCEPT !.query = Put(@, "Incident_Status", Eq(approval_type))]
  ELSE Raise(st, "ValueError", <<"Invalid approval type", approval_type>>)

\* The flattening of the approve arrays: cases is the list of the approve
\* arrays (each a list of approval types) of the documents found.
RECURSIVE FlattenApprovals(_, _)
FlattenApprovals(cases, approval_type) ==
  IF cases = <<>> THEN <<>>
  ELSE SelectSeq(Head(cases),
                 LAMBDA a : approval_type = None \/ a = approval_type)
       \o FlattenApprovals(Tail(cases), approval_type)

\* excel_drc_approval_detail(approval_type, from_date, to_date) run against a
\* collection in which the documents cases match.
excel_drc_approval_detail(approval_type, from_date, to_date, cases, now) ==
  LET st == DateRangeStage(ApprovalTypeStage(InitialStage, approval_type),
                           "Created_Dtm", from_date, to_date)
      processed_data == FlattenApprovals(cases, approval_type)
      filename == <<"drc_approval_", now.s, now.us, ".xlsx">>
      \* the filter dates are parsed again, this time without the date block
      reparse_fails == (Truthy(from_date) /\ ~Parses(from_date))
                       \/ (Truthy(to_date) /\ ~Parses(to_date))
      filters == [approval_type |-> approval_type,
                  date_range |-> <<FilterDate(from_date),
                                   FilterDate(to_date)>>]
      sheet == create_approval_table(Len(processed_data), filters)
  IN  IF st.err # NoError
      THEN Outcome(FALSE, st.err, TRUE, TRUE, <<>>, <<>>, <<>>)
      ELSE IF cases = <<>>
      THEN Outcome(FALSE, NoError, TRUE, TRUE, <<st.query>>, <<>>, <<>>)
      ELSE IF processed_data = <<>>
      THEN Outcome(FALSE, NoError, TRUE, TRUE, <<st.query>>, <<>>, <<>>)
      ELSE IF reparse_fails
      THEN Outcome(FALSE, <<"ValueError", "strptime">>, TRUE, TRUE,
                   <<st.query>>, <<>>, <<>>)
      ELSE IF ~sheet.ok
      THEN Outcome(FALSE, <<"Exception", "Failed to create DRC approval sheet">>,
                   TRUE, TRUE, <<st.query>>, <<>>, <<>>)
      ELSE WithSheet(
             Outcome(TRUE, NoError, TRUE, TRUE, <<st.query>>,
                     <<[name |-> filename, rows |-> Len(processed_data)]>>,
                     <<>>),
             filters, sheet)

(***************************************************************************)
(* export/case_distribution_drc_summary_drc_id.py                          *)
(***************************************************************************)
\* In this function the query is keyed by the parameter VALUE (query[drc],
\* query[case_distribution_batch_id]); str_keys holds the string keys and
\* int_keys the integer ones.  An integer parameter is passed as <<n>>, and
\* as <<>> for None.
SummaryDrcStage(st, drc) ==
  IF drc = None THEN st
  ELSE IF drc = "D1"
       THEN [st EXCEPT !.query.str_keys = Put(@, drc, Regex(drc))]
  ELSE IF drc = "D2"
       THEN [st EXCEPT !.query.str_keys = Put(@, drc, Eq(drc))]
  ELSE Raise(st, "ValueError", <<"Invalid drc", drc>>)

SummaryBatchStage(st, batch_id) ==
  IF st.err # NoError \/ batch_id = <<>> THEN st
  ELSE IF batch_id[1] = 1
       THEN [st EXCEPT !.query.int_keys = Put(@, 1, Regex(batch_id[1]))]
  ELSE IF batch_id[1] \in {2, 3}
       THEN [st EXCEPT !.query.int_keys = Put(@, batch_id[1], Eq(batch_id[1]))]
  ELSE Raise(st, "ValueError", <<"Invalid case distribution batch id">>)

excel_drc_summary_detail(drc, case_distribution_batch_id, nrec, now) ==
  LET st == SummaryBatchStage(
              SummaryDrcStage(
                [InitialStage EXCEPT
                   !.query = [str_keys |-> EmptyDict,
                              int_keys |-> EmptyDict]],
                drc),
              case_distribution_batch_id)
      filename == <<"drc_summary_", now.s, ".xlsx">>
      filters == [drc |-> drc,
                  case_distribution_batch_id |-> case_distribution_batch_id]
      sheet == create_drc_summary_table(nrec, filters)
  IN  IF st.err # NoError
      THEN Outcome(FALSE, st.err, TRUE, TRUE, <<>>, <<>>, <<>>)
      ELSE IF nrec = 0
      THEN Outcome(FALSE, NoError, TRUE, TRUE, <<st.query>>, <<>>, <<>>)
      ELSE IF ~sheet.ok
      THEN Outcome(FALSE, <<"Exception", "Failed to create DRC summary sheet">>,
                   TRUE, TRUE, <<st.query>>, <<>>, <<>>)
      ELSE WithSheet(
             Outcome(TRUE, NoError, TRUE, TRUE, <<st.query>>,
                     <<[name |-> filename, rows |-> nrec]>>, <<>>),
             filters, sheet)

(***************************************************************************)
(* The date block of _23_direct_lod.py, cpe_list.py, request_log.py and    *)
(* request_response_log_list.py                                            *)
(***************************************************************************)
\* str() of the ValueError strptime raises for a string that does not parse
StrptimeError(s) ==
  IF s \in DOMAIN DateFields
  THEN <<"day is out of range for month">>
  ELSE <<"time data ", s, " does not match format ", "%Y-%m-%d">>

\* {"$or": [{"Approved on": range}, {"Letter issued on": range}]}
CaseDatePred(lo, hi) ==
  [op |-> "or",
   alts |-> <<[field |-> "Approved on", pred |-> Range(lo, hi)],
              [field |-> "Letter issued on", pred |-> Range(lo, hi)]>>]

\* The date block with its inner try: a ValueError of strptime is raised
\* again as "Invalid date format ...", the range error (message early) as it
\* is; the range is stored under field, or under "$or" as the two
\* alternatives of excel_case_detail.
NestedDateStage(st, field, from_date, to_date, early) ==
  IF st.err # NoError \/ from_date = None \/ to_date = None THEN st
  ELSE IF ~Parses(from_date)
       THEN Raise(st, "ValueError",
                  <<"Invalid date format. Use 'YYYY-MM-DD'. Error: ">>
                  \o StrptimeError(from_date))
  ELSE IF ~Parses(to_date)
       THEN Raise(st, "ValueError",
                  <<"Invalid date format. Use 'YYYY-MM-DD'. Error: ">>
                  \o StrptimeError(to_date))
  ELSE LET from_dt == strptime(from_date)
           to_dt == AddDelta(AddDelta(strptime(to_date), 1, 0), 0, -1)
       IN  IF DtLess(to_dt, from_dt)
           THEN Raise(st, "ValueError", <<early>>)
           ELSE [st EXCEPT !.query = Put(@, field,
                                           IF field = "$or"
                                           THEN CaseDatePred(from_dt, to_dt)
                                           ELSE Range(from_dt, to_dt)),
                           !.from_dt = <<from_dt>>, !.to_dt = <<to_dt>>,
                           !.bound = TRUE]

\* "date_range": (strptime(from_date) if from_date else None,
\*                strptime(to_date) if to_date else None): the exception of
\* the first date that is given and does not parse, NoError when none
FilterDatesError(from_date, to_date) ==
  IF Truthy(from_date) /\ ~Parses(from_date)
  THEN <<"ValueError">> \o StrptimeError(from_date)
  ELSE IF Truthy(to_date) /\ ~Parses(to_date)
  THEN <<"ValueError">> \o StrptimeError(to_date)
  ELSE NoError

\* "date_range": (from_dt if date_from is not None else None,
\*                to_dt if date_to is not None else None): from_dt and to_dt
\* are bound by the date block only
FilterDatesUnbound(st, date_from, date_to) ==
  ~st.bound /\ (date_from # None \/ date_to # None)

(***************************************************************************)
(* export/_23_direct_lod.py                                                *)
(***************************************************************************)
DirectLodRuleStage(st, drc_commision_rule) ==
  IF st.err # NoError \/ drc_commision_rule = None THEN st
  ELSE IF drc_commision_rule = "PEO TV"
       THEN [st EXCEPT !.query = Put(@, "drc_commision_rule",
                                      Regex(drc_commision_rule))]
  ELSE IF drc_commision_rule = "BB"
       THEN [st EXCEPT !.query = Put(@, "drc_commision_rule",
                                      Eq(drc_commision_rule))]
  ELSE Raise(st, "ValueError",
             <<"Invalid drc_commision_rule", drc_commision_rule>>)

\* excel_direct_lod_detail(from_date, to_date, drc_commision_rule)
excel_direct_lod_detail(from_date, to_date, drc_commision_rule, nrec, now, auditOk) ==
  LET st == DirectLodRuleStage(
              NestedDateStage(
                [InitialStage EXCEPT
                   !.query = Put(EmptyDict, "Incident_Status",
                                 Eq("Direct LOD"))],
                "Created_Dtm", from_date, to_date,
                "to_date cannot be earlier than from_date"),
              drc_commision_rule)
      ferr == FilterDatesError(from_date, to_date)
      filename == <<"direct_lod_incidents_task_", now.s, now.us, ".xlsx">>
      filters == [incident_status |-> "Direct LOD",
                  drc_commision_rule |-> drc_commision_rule,
                  date_range |-> <<FilterDate(from_date),
                                   FilterDate(to_date)>>]
      sheet == create_direct_lod_table(nrec, filters)
      record == [File_Name |-> filename,
                 Exported_Record_Count |-> nrec,
                 Applied_Filters |-> [From_Date |-> from_date,
                                      To_Date |-> to_date,
                                      DRC_Commsion_Rule |->
                                        drc_commision_rule]]
  IN  IF st.err # NoError
      THEN Outcome(FALSE, st.err, TRUE, TRUE, <<>>, <<>>, <<>>)
      ELSE IF ferr # NoError
      THEN Outcome(FALSE, ferr, TRUE, TRUE, <<st.query>>, <<>>, <<>>)
      ELSE IF ~sheet.ok
      THEN Outcome(FALSE,
                   <<"Exception", "Failed to create direct LOD incident sheet">>,
                   TRUE, TRUE, <<st.query>>, <<>>, <<>>)
      ELSE WithSheet(
             Outcome(FALSE, NoError, TRUE, TRUE, <<st.query>>,
                     <<[name |-> filename, rows |-> nrec]>>,
                     IF auditOk THEN <<record>> ELSE <<>>),
             filters, sheet)

(***************************************************************************)
(* export/cpe_list.py                                                      *)
(***************************************************************************)
CpeRuleStage(st, drc_commision_rule) ==
  IF st.err # NoError \/ drc_commision_rule = None THEN st
  ELSE IF drc_commision_rule = "PEO TV"
       THEN [st EXCEPT !.query = Put(@, "Drc commision rule",
                                      Regex(drc_commision_rule))]
  ELSE IF drc_commision_rule = "BB"
       THEN [st EXCEPT !.query = Put(@, "Actions", Eq(drc_commision_rule))]
  ELSE Raise(st, "ValueError",
             <<"Invalid drc_commision_rule", drc_commision_rule>>)

\* excel_cpe_detail(from_date, to_date, drc_commision_rule); its audit record
\* goes to the collection download.
excel_cpe_detail(from_date, to_date, drc_commision_rule, nrec, now, auditOk) ==
  LET st == CpeRuleStage(
              NestedDateStage(
                [InitialStage EXCEPT
                   !.query = Put(EmptyDict, "Actions", Eq("collect CPE"))],
                "Created_Dtm", from_date, to_date,
                "to_date cannot be earlier than from_date"),
              drc_commision_rule)
      ferr == FilterDatesError(from_date, to_date)
      filename == <<"cpe_incidents_", now.s, now.us, ".xlsx">>
      filters == [action |-> "collect CPE",
                  drc_commision_rule |-> drc_commision_rule,
                  date_range |-> <<FilterDate(from_date),
                                   FilterDate(to_date)>>]
      sheet == create_cpe_table(nrec, filters)
      record == [File_Name |-> filename,
                 Exported_Record_Count |-> nrec,
                 Applied_Filters |-> [From_Date |-> from_date,
                                      To_Date |-> to_date,
                                      DRC_Commsion_Rule |->
                                        drc_commision_rule]]
  IN  IF st.err # NoError
      THEN Outcome(FALSE, st.err, TRUE, TRUE, <<>>, <<>>, <<>>)
      ELSE IF ferr # NoError
      THEN Outcome(FALSE, ferr, TRUE, TRUE, <<st.query>>, <<>>, <<>>)
      ELSE IF ~sheet.ok
      THEN Outcome(FALSE,
                   <<"Exception", "Failed to create CPE incident sheet">>,
                   TRUE, TRUE, <<st.query>>, <<>>, <<>>)
      ELSE WithSheet(
             WithDownloads(
               Outcome(TRUE, NoError, TRUE, TRUE, <<st.query>>,
                       <<[name |-> filename, rows |-> nrec]>>, <<>>),
               IF auditOk THEN <<record>> ELSE <<>>),
             filters, sheet)

(***************************************************************************)
(* export/request_response_log_list.py                                     *)
(***************************************************************************)
\* query["Status"] == ... is a comparison: it reads query["Status"] of the
\* empty query, which raises KeyError.
CaseStatusStage(st, case_current_status) ==
  IF case_current_status = None THEN st
  ELSE IF case_current_status \in {"Pending FMB", "In progress", "Closed"}
       THEN IF "Status" \in DOMAIN st.query THEN st
            ELSE Raise(st, "KeyError", <<"Status">>)
  ELSE Raise(st, "ValueError",
             <<"Invalid case_current_status", case_current_status>>)

\* excel_case_detail(case_current_status, date_from, date_to)
excel_case_detail(case_current_status, date_from, date_to, nrec, now) ==
  LET st == NestedDateStage(
              CaseStatusStage(InitialStage, case_current_status),
              "$or", date_from, date_to,
              "date_to cannot be earlier than date_from")
      filename == <<"cases_details_", now.s, ".xlsx">>
      filters == [status |-> case_current_status,
                  date_range |-> <<st.from_dt, st.to_dt>>]
      sheet == create_case_table(nrec, filters)
  IN  IF st.err # NoError
      THEN Outcome(FALSE, st.err, TRUE, TRUE, <<>>, <<>>, <<>>)
      ELSE IF FilterDatesUnbound(st, date_from, date_to)
      THEN Outcome(FALSE, <<"UnboundLocalError">>, TRUE, TRUE,
                   <<st.query>>, <<>>, <<>>)
      ELSE IF ~sheet.ok
      THEN Outcome(FALSE, <<"Exception", "Failed to create case sheet">>,
                   TRUE, TRUE, <<st.query>>, <<>>, <<>>)
      ELSE WithSheet(
             Outcome(TRUE, NoError, TRUE, TRUE, <<st.query>>,
                     <<[name |-> filename, rows |-> nrec]>>, <<>>),
             filters, sheet)

(***************************************************************************)
(* export/request_log.py                                                   *)
(***************************************************************************)
\* str.strip() of the delegate_user_id inputs
Strip ==
  [s \in {"u1", " u1 ", "  "} |->
     CASE s = "u1" -> "u1" [] s = " u1 " -> "u1" [] s = "  " -> ""]

RequestDelegateStage(st, delegate_user_id) ==
  IF delegate_user_id = None THEN st
  ELSE IF Strip[delegate_user_id] = ""
       THEN Raise(st, "ValueError",
                  <<"delegate_user_id must be a non-empty string">>)
  ELSE [st EXCEPT !.query = Put(@, "delegate_user_id",
                                 Eq(Strip[delegate_user_id]))]

RequestTypeStage(st, User_Interaction_Type) ==
  IF st.err # NoError \/ User_Interaction_Type = None THEN st
  ELSE IF User_Interaction_Type \notin {"FMB", "RO", "Admin"}
       THEN Raise(st, "ValueError",
                  <<"Invalid User_Interaction_Type", User_Interaction_Type>>)
  ELSE [st EXCEPT !.query = Put(@, "Request Type", Eq(User_Interaction_Type))]

RequestAcceptStage(st, requestAccept) ==
  IF st.err # NoError \/ requestAccept = None THEN st
  ELSE IF requestAccept \notin {"Approved", "Pending", "Rejected"}
       THEN Raise(st, "ValueError",
                  <<"requestAccept must be either 'Approved', 'Pending', or 'Rejected'">>)
  ELSE [st EXCEPT !.query = Put(@, "Approved", Eq(requestAccept))]

\* excel_request_log_detail(delegate_user_id, User_Interaction_Type,
\* requestAccept, date_from, date_to)
excel_request_log_detail(delegate_user_id, User_Interaction_Type, requestAccept, date_from, date_to, nrec, now) ==
  LET st == NestedDateStage(
              RequestAcceptStage(
                RequestTypeStage(
                  RequestDelegateStage(InitialStage, delegate_user_id),
                  User_Interaction_Type),
                requestAccept),
              "Requested date", date_from, date_to,
              "date_to cannot be earlier than date_from")
      filename == <<"request_log_details_", now.s, ".xlsx">>
      filters == [delegate_user_id |-> delegate_user_id,
                  interaction_type |-> User_Interaction_Type,
                  request_accept |-> requestAccept,
                  date_range |-> <<st.from_dt, st.to_dt>>]
      sheet == create_request_table(nrec, filters)
  IN  IF st.err # NoError
      THEN Outcome(FALSE, st.err, TRUE, TRUE, <<>>, <<>>, <<>>)
      ELSE IF FilterDatesUnbound(st, date_from, date_to)
      THEN Outcome(FALSE, <<"UnboundLocalError">>, TRUE, TRUE,
                   <<st.query>>, <<>>, <<>>)
      ELSE IF ~sheet.ok
      THEN Outcome(FALSE, <<"Exception", "Failed to create request sheet">>,
                   TRUE, TRUE, <<st.query>>, <<>>, <<>>)
      ELSE WithSheet(
             Outcome(TRUE, NoError, TRUE, TRUE, <<st.query>>,
                     <<[name |-> filename, rows |-> nrec]>>, <<>>),
             filters, sheet)

(***************************************************************************)
(* export/_30_drc_assign_batch_approval_list.py                            *)
(***************************************************************************)
BatchApproverStage(st, approver_ref) ==
  IF approver_ref = None THEN st
  ELSE IF approver_ref \in {"k1", "k2"}
       THEN [st EXCEPT !.query = Put(@, "approver_ref", Eq(approver_ref))]
  ELSE Raise(st, "ValueError", <<"approver_ref must be 'k1' or 'k2'">>)

\* excel_drc_assign_batch_approval(approver_ref)
excel_drc_assign_batch_approval(approver_ref, nrec, now) ==
  LET st == BatchApproverStage(InitialStage, approver_ref)
      filename == <<"drc_assign_batch_approval_", now.s, now.us, ".xlsx">>
      filters == [approver_ref |-> approver_ref]
      sheet == create_drc_assign_batch_approval_table(nrec, filters)
  IN  IF st.err # NoError
      THEN Outcome(FALSE, st.err, TRUE, TRUE, <<>>, <<>>, <<>>)
      ELSE IF ~sheet.ok
      THEN Outcome(FALSE,
                   <<"Exception",
                     "Failed to create DRC assign batch approval sheet">>,
                   TRUE, TRUE, <<st.query>>, <<>>, <<>>)
      ELSE WithSheet(
             Outcome(TRUE, NoError, TRUE, TRUE, <<st.query>>,
                     <<[name |-> filename, rows |-> nrec]>>, <<>>),
             filters, sheet)

(***************************************************************************)
(* export/case_distribution_drc_transaction_batch_list.py                  *)
(***************************************************************************)
BatchListStage(st, case_distribution_batch_id) ==
  IF case_distribution_batch_id = <<>> THEN st
  ELSE IF case_distribution_batch_id[1] \in {1, 2}
       THEN [st EXCEPT !.query = Put(@, "case_distribution_batch_id",
                                      Eq(case_distribution_batch_id[1]))]
  ELSE Raise(st, "ValueError", <<"Invalid case distribution batch id">>)

\* excel_case_distribution_transaction_batch_detail(case_distribution_batch_id);
\* its audit record goes to the collection download
excel_case_distribution_transaction_batch_detail(case_distribution_batch_id, nrec, now, auditOk) ==
  LET st == BatchListStage(InitialStage, case_distribution_batch_id)
      filename == <<"case_distribution_drc_transaction_batch_list_details_",
                    now.s, now.us, ".xlsx">>
      filters == [case_distribution_batch_id |-> case_distribution_batch_id]
      sheet == create_distribution_table(nrec, filters)
      record == [File_Name |-> filename,
                 Exported_Record_Count |-> nrec,
                 Applied_Filters |->
                   [Case_distribution_batch_id |-> case_distribution_batch_id]]
  IN  IF st.err # NoError
      THEN Outcome(FALSE, st.err, TRUE, TRUE, <<>>, <<>>, <<>>)
      ELSE IF ~sheet.ok
      THEN Outcome(FALSE,
                   <<"Exception",
                     "Failed to create distribution drc transaction sheet">>,
                   TRUE, TRUE, <<st.query>>, <<>>, <<>>)
      ELSE WithSheet(
             WithDownloads(
               Outcome(TRUE, NoError, TRUE, TRUE, <<st.query>>,
                       <<[name |-> filename, rows |-> nrec]>>, <<>>),
               IF auditOk THEN <<record>> ELSE <<>>),
             filters, sheet)

(***************************************************************************)
(* export/_21_incident_open.py                                             *)
(***************************************************************************)
\* excel_incident_open_distribution(): the query is fixed, the report is
\* written whatever the number of documents, and a failure of the insert into
\* file_download_log is only logged.
excel_incident_open_distribution(nrec, now, auditOk) ==
  LET query == Put(EmptyDict, "Incident_Status", Eq("Incident Open"))
      filename == <<"incident_open_distribution_", now.s, now.us, ".xlsx">>
      sheet == create_incident_open_distribution_table(nrec)
      record == [File_Name |-> filename, Exported_Record_Count |-> nrec]
  IN  WithSheet(
        Outcome(TRUE, NoError, TRUE, TRUE, <<query>>,
                <<[name |-> filename, rows |-> nrec]>>,
                IF auditOk THEN <<record>> ELSE <<>>),
        EmptyDict, sheet)

(***************************************************************************)
(* export/each_lod_or_final_remider_case.py                                *)
(***************************************************************************)
RejectedActionsStage(st, actions) ==
  IF st.err # NoError \/ actions = None THEN st
  ELSE IF actions = "collect CPE"
       THEN [st EXCEPT !.query = Put(@, "Actions", Regex(actions))]
  ELSE IF actions = "collect arrears"
       THEN [st EXCEPT !.query = Put(@, "Actions", Eq(actions))]
  ELSE IF actions = "collect arrears and CPE"
       THEN [st EXCEPT !.query = Put(@, "Actions", Eq(actions))]
  ELSE Raise(st, "ValueError", <<"Invalid actions", actions>>)

\* The message of the else branch names actions, not the rule.
RejectedRuleStage(st, actions, drc_commision_rule) ==
  IF st.err # NoError \/ drc_commision_rule = None THEN st
  ELSE IF drc_commision_rule = "PEO TV"
       THEN [st EXCEPT !.query = Put(@, "drc_commision_rule",
                                      Regex(drc_commision_rule))]
  ELSE IF drc_commision_rule = "BB"
       THEN [st EXCEPT !.query = Put(@, "drc_commision_rule",
                                      Eq(drc_commision_rule))]
  ELSE Raise(st, "ValueError", <<"Invalid actions", actions>>)

\* excel_rejected_detail(actions, drc_commision_rule, from_date, to_date);
\* its audit record goes to the collection download.
excel_rejected_detail(actions, drc_commision_rule, from_date, to_date, nrec, now, auditOk) ==
  LET st == NestedDateStage(
              RejectedRuleStage(
                RejectedActionsStage(
                  [InitialStage EXCEPT
                     !.query = Put(EmptyDict, "Incident_Status",
                                   Eq("Incident Reject"))],
                  actions),
                actions, drc_commision_rule),
              "Created_Dtm", from_date, to_date,
              "to_date cannot be earlier than from_date")
      ferr == FilterDatesError(from_date, to_date)
      filename == <<"rejected_incidents_", now.s, now.us, ".xlsx">>
      filters == [actions |-> actions,
                  drc_commision_rule |-> drc_commision_rule,
                  date_range |-> <<FilterDate(from_date),
                                   FilterDate(to_date)>>]
      sheet == create_rejected_table(nrec, filters)
      record == [File_Name |-> filename,
                 Exported_Record_Count |-> nrec,
                 Applied_Filters |-> [Actions |-> actions,
                                      DRC_Commision_Rule |->
                                        drc_commision_rule,
                                      From_Date |-> from_date,
                                      To_Date |-> to_date]]
  IN  IF st.err # NoError
      THEN Outcome(FALSE, st.err, TRUE, TRUE, <<>>, <<>>, <<>>)
      ELSE IF ferr # NoError
      THEN Outcome(FALSE, ferr, TRUE, TRUE, <<st.query>>, <<>>, <<>>)
      ELSE IF ~sheet.ok
      THEN Outcome(FALSE,
                   <<"Exception", "Failed to create rejected incident sheet">>,
                   TRUE, TRUE, <<st.query>>, <<>>, <<>>)
      ELSE WithSheet(
             WithDownloads(
               Outcome(TRUE, NoError, TRUE, TRUE, <<st.query>>,
                       <<[name |-> filename, rows |-> nrec]>>, <<>>),
               IF auditOk THEN <<record>> ELSE <<>>),
             filters, sheet)

(***************************************************************************)
(* export/pending_reject_list.py                                           *)
(***************************************************************************)
\* drc_commission_rules is [kind, items]: kind "none" for None, "list" for a
\* list of items, "other" for a value that is not a list.
NoRules == [kind |-> "none", items |-> <<>>]

PendingRulesStage(st, drc_commission_rules) ==
  IF drc_commission_rules.kind = "none" THEN st
  ELSE IF drc_commission_rules.kind = "list"
          /\ drc_commission_rules.items # <<>>
       THEN [st EXCEPT !.query = Put(@, "Filtered_Reason",
                                      In(drc_commission_rules.items))]
  ELSE Raise(st, "ValueError",
             <<"drc_commission_rules must be a non-empty list">>)

\* excel_pending_reject_incident(drc_commission_rules, from_date, to_date);
\* its audit record goes to the collection download.
excel_pending_reject_incident(drc_commission_rules, from_date, to_date, nrec, now, auditOk) ==
  LET st == NestedDateStage(
              PendingRulesStage(
                [InitialStage EXCEPT
                   !.query = Put(EmptyDict, "Incident_Status",
                                 In(<<"Incident Reject">>))],
                drc_commission_rules),
              "Rejected_Dtm", from_date, to_date,
              "to_date cannot be earlier than from_date")
      filename == <<"pending_reject_incidents_", now.s, now.us, ".xlsx">>
      filters == [drc_commission_rules |-> drc_commission_rules.items,
                  date_range |-> <<st.from_dt, st.to_dt>>]
      sheet == create_pending_reject_incident_table(nrec, filters)
      record == [File_Name |-> filename,
                 Exported_Record_Count |-> nrec,
                 Applied_Filters |-> [DRC_Commision_Rule |->
                                        drc_commission_rules,
                                      From_Date |-> from_date,
                                      To_Date |-> to_date]]
  IN  IF st.err # NoError
      THEN Outcome(FALSE, st.err, TRUE, TRUE, <<>>, <<>>, <<>>)
      ELSE IF FilterDatesUnbound(st, from_date, to_date)
      THEN Outcome(FALSE, <<"UnboundLocalError">>, TRUE, TRUE,
                   <<st.query>>, <<>>, <<>>)
      ELSE IF ~sheet.ok
      THEN Outcome(FALSE,
                   <<"Exception",
                     "Failed to create pending reject incident sheet">>,
                   TRUE, TRUE, <<st.query>>, <<>>, <<>>)
      ELSE WithSheet(
             WithDownloads(
               Outcome(TRUE, NoError, TRUE, TRUE, <<st.query>>,
                       <<[name |-> filename, rows |-> nrec]>>, <<>>),
               IF auditOk THEN <<record>> ELSE <<>>),
             filters, sheet)

(***************************************************************************)
(* export/_26_case_distribution_drc_transaction.py                         *)
(***************************************************************************)
ArrearsBandStage(st, arrears_band) ==
  IF arrears_band = None THEN st
  ELSE IF arrears_band = "AB-5_10"
       THEN [st EXCEPT !.query = Put(@, "Arrears Band", Eq(arrears_band))]
  ELSE IF arrears_band = "AB-25_50"
       THEN [st EXCEPT !.query = Put(@, "Arrears Band", Eq(arrears_band))]
  ELSE Raise(st, "ValueError", <<"Invalid Arrears_band", arrears_band>>)

\* excel_case_distribution_detail(arrears_band, drc_commision_rule,
\* from_date, to_date).  Its check of drc_commision_rule is the one of
\* excel_direct_lod_detail, and its renderer create_distribution_table has
\* the layout of the one of case_distribution_drc_transaction_batch_list.py.
excel_case_distribution_detail(arrears_band, drc_commision_rule, from_date, to_date, nrec, now, auditOk) ==
  LET st == NestedDateStage(
              DirectLodRuleStage(ArrearsBandStage(InitialStage, arrears_band),
                                 drc_commision_rule),
              "Created Dtm", from_date, to_date,
              "to_date cannot be earlier than from_date")
      filename == <<"case_distribution_details_", now.s, now.us, ".xlsx">>
      filters == [arrears_band |-> arrears_band,
                  drc_rule |-> drc_commision_rule,
                  date_range |-> <<st.from_dt, st.to_dt>>]
      sheet == create_distribution_table(nrec, filters)
      record == [File_Name |-> filename,
                 Exported_Record_Count |-> nrec,
                 Applied_Filters |-> [Arrears_Band |-> arrears_band,
                                      DRC_commision_rule |->
                                        drc_commision_rule,
                                      From_Date |-> from_date,
                                      To_Date |-> to_date]]
  IN  IF st.err # NoError
      THEN Outcome(FALSE, st.err, TRUE, TRUE, <<>>, <<>>, <<>>)
      ELSE IF FilterDatesUnbound(st, from_date, to_date)
      THEN Outcome(FALSE, <<"UnboundLocalError">>, TRUE, TRUE,
                   <<st.query>>, <<>>, <<>>)
      ELSE IF ~sheet.ok
      THEN Outcome(FALSE,
                   <<"Exception", "Failed to create distribution sheet">>,
                   TRUE, TRUE, <<st.query>>, <<>>, <<>>)
      ELSE WithSheet(
             Outcome(TRUE, NoError, TRUE, TRUE, <<st.query>>,
                     <<[name |-> filename, rows |-> nrec]>>,
                     IF auditOk THEN <<record>> ELSE <<>>),
             filters, sheet)

(***************************************************************************)
(* export/_40_each_lod_or_final_remider_case.py                            *)
(***************************************************************************)
LodDocumentStage(st, current_document_type) ==
  IF st.err # NoError \/ current_document_type = None THEN st
  ELSE IF current_document_type = "PEO TV"
       THEN [st EXCEPT !.query = Put(@, "current_document_type",
                                      Regex(current_document_type))]
  ELSE IF current_document_type = "BB"
       THEN [st EXCEPT !.query = Put(@, "current_document_type",
                                      Eq(current_document_type))]
  ELSE Raise(st, "ValueError",
             <<"Invalid documents", current_document_type>>)

\* excel_lod_or_final_reminder_detail(case_current_status,
\* current_document_type).  Its check of case_current_status is the one
\* excel_rejected_detail makes of actions.  After the query it calls
\* create_rejected_table, a name the module does not define (its renderer is
\* create_each_lod_or_final_reminder_table): NameError, caught by the
\* handler of Exception, so no file is saved and no record inserted.
excel_lod_or_final_reminder_detail(case_current_status, current_document_type, nrec, now) ==
  LET st == LodDocumentStage(
              RejectedActionsStage(InitialStage, case_current_status),
              current_document_type)
  IN  IF st.err # NoError
      THEN Outcome(FALSE, st.err, TRUE, TRUE, <<>>, <<>>, <<>>)
      ELSE Outcome(FALSE, <<"NameError", "create_rejected_table">>,
                   TRUE, TRUE, <<st.query>>, <<>>, <<>>)

(***************************************************************************)
(* tasks/task_handler.py                                                   *)
(***************************************************************************)
\* TaskHandlers.handle_task_20(action_type, status, from_date, to_date):
\* what excel_incident_detail did, then the handler's own insert into
\* download (recordOk tells whether it succeeds) and its return value, None
\* or "True".
handle_task_20(action_type, status, from_date, to_date, nrec, now, auditOk, recordOk) ==
  LET o == excel_incident_detail(action_type, status, from_date, to_date,
                                 nrec, now, auditOk)
      record == [export_type |-> "incident_report",
                 action_type |-> action_type, status |-> status,
                 from_date |-> from_date, to_date |-> to_date,
                 download_status |-> "Incident report exported"]
  IN  IF o.ret
      THEN IF recordOk
           THEN [o EXCEPT !.downloads = <<record>>, !.handler_ret = None]
           ELSE [o EXCEPT !.handler_ret = "True"]
      ELSE [o EXCEPT !.handler_ret = None]

\* TaskHandlers.handle_task_21(): the same around
\* excel_incident_open_distribution
handle_task_21(nrec, now, auditOk, recordOk) ==
  LET o == excel_incident_open_distribution(nrec, now, auditOk)
      record == [export_type |-> "incident_open_report",
                 download_status |-> "Incident open report exported"]
  IN  IF o.ret
      THEN IF recordOk
           THEN [o EXCEPT !.downloads = <<record>>, !.handler_ret = None]
           ELSE [o EXCEPT !.handler_ret = "True"]
      ELSE [o EXCEPT !.handler_ret = None]

\* handler(**params) of TaskManager.execute_tasks: params is the parameters
\* document of the task, a key missing from it leaves the default None, and
\* a key the handler does not take raises TypeError before the handler runs.
HandlerKeywords(template_id) ==
  IF template_id = 20
  THEN {"action_type", "status", "from_date", "to_date"}
  ELSE {}

Argument(params, key) == IF key \in DOMAIN params THEN params[key] ELSE None

CallHandler(template_id, params, nrec, now, auditOk, recordOk) ==
  IF ~(DOMAIN params \subseteq HandlerKeywords(template_id))
  THEN [Outcome(FALSE, <<"TypeError", "unexpected keyword argument">>,
                FALSE, FALSE, <<>>, <<>>, <<>>)
          EXCEPT !.handler_ret = "raise"]
  ELSE IF template_id = 20
  THEN handle_task_20(Argument(params, "action_type"),
                      Argument(params, "status"),
                      Argument(params, "from_date"),
                      Argument(params, "to_date"),
                      nrec, now, auditOk, recordOk)
  ELSE handle_task_21(nrec, now, auditOk, recordOk)


(***************************************************************************)
(* State                                                                   *)
(***************************************************************************)
VARIABLES
  tasks,              \* the System_tasks collection, in find() order
  exports,            \* the files of directory "exports", oldest mtime first
  \* process_tasks
  ptPc, task_list, ptIdx, task_error_count, total_error_count, success,
  ptExc, ptReturn, update_data, trace,
  \* TaskManager.execute_tasks
  tmPc, template_ids, tmK, tmCursor, tmI, tmLog,
  \* the export functions
  call, out, disk, file_download_log, clock, ncalls,
  \* the other run of process_tasks, the collection System_tasks_Inprogress
  \* and the collection download
  peer, System_tasks_Inprogress, download,
  \* a direct call of a renderer and the sheet it built
  rnCall, rnSheet,
  \* the threads constructing ConfigLoaderSingleton: the statement each is
  \* at, the class attributes _instance and _lock, the attributes config and
  \* environment of the instance, the number of calls of _load_config, and
  \* what each constructor call returned
  clPc, cls_instance, cls_lock, inst_config, inst_environment, load_count,
  clRet

sharedVars == <<tasks, exports>>
ptVars == <<ptPc, task_list, ptIdx, task_error_count, total_error_count,
            success, ptExc, ptReturn, update_data, trace>>
tmVars == <<tmPc, template_ids, tmK, tmCursor, tmI, tmLog>>
exVars == <<call, out, disk, file_download_log, clock, ncalls>>
clVars == <<clPc, cls_instance, cls_lock, inst_config, inst_environment,
            load_count, clRet>>
extVars == <<rnCall, rnSheet, clVars>>
auxVars == <<peer, System_tasks_Inprogress, download, extVars>>
vars == <<sharedVars, ptVars, tmVars, exVars, auxVars>>

NoDescription == [kind |-> "none", name |-> "", errors |-> 0, msg |-> <<>>]

\* f"{task_name} completed with {task_error_count} errors"
CompletedDescription(task_name, n) ==
  [kind |-> "completed", name |-> task_name, errors |-> n, msg |-> <<>>]

\* f"{task_name} failed: {str(task_error)}"; an exception is the tuple of its
\* type and the parts of its message, and str() gives the message.
FailedDescription(task_name, exc) ==
  [kind |-> "failed", name |-> task_name, errors |-> 0, msg |-> Tail(exc)]

TaskDoc(template_task_id, task_id, status) ==
  [Template_Task_Id |-> template_task_id, Task_Id |-> task_id,
   task_status |-> status, task_description |-> NoDescription,
   export |-> <<>>]

\* The variables a dispatcher or the export functions do not use stay at
\* these values while another part of the program runs.
PTIdle ==
  /\ ptPc = "idle" /\ task_list = <<>> /\ ptIdx = 0
  /\ task_error_count = 0 /\ total_error_count = 0 /\ success = FALSE
  /\ ptExc = <<>> /\ ptReturn = None /\ update_data = <<>>
  /\ trace = <<>>

TMIdle ==
  /\ tmPc = "idle" /\ template_ids = <<>> /\ tmK = 0 /\ tmCursor = <<>>
  /\ tmI = 0 /\ tmLog = <<>>

NoCall == [fn |-> "none"]

EXIdle ==
  /\ call = NoCall /\ out = <<>> /\ disk = <<>> /\ file_download_log = <<>>
  /\ clock = [s |-> 0, us |-> 0] /\ ncalls = 0

\* The locals of a run of process_tasks that is not the running one; id 0
\* when there is no such run.
NoPeer ==
  [id |-> 0, pc |-> "idle", task_list |-> <<>>, idx |-> 0,
   task_error_count |-> 0, total_error_count |-> 0, success |-> FALSE,
   exc |-> <<>>, ret |-> None, update_data |-> <<>>, trace |-> <<>>]

NoRender == [fn |-> "none"]

Threads == 1..MaxThreads

\* No thread constructs the configuration loader.
CLIdle ==
  /\ clPc = [t \in Threads |-> "idle"]
  /\ cls_instance = <<>> /\ cls_lock = 0
  /\ inst_config = "unset" /\ inst_environment = "unset"
  /\ load_count = 0
  /\ clRet = [t \in Threads |-> <<>>]

ExtIdle ==
  /\ rnCall = NoRender /\ rnSheet = NoSheet
  /\ CLIdle

AuxIdle ==
  /\ peer = NoPeer /\ System_tasks_Inprogress = <<>> /\ download = <<>>
  /\ ExtIdle

(***************************************************************************)
(* export/task_processor.py                                                *)
(***************************************************************************)
\* config_parser[f'template_task_id_{environment}']: template id -> name.
\* "27" is configured but has no export function.
template_tasks ==
  [tid \in {"20", "27"} |->
     IF tid = "20" THEN "incident_export" ELSE "batch_export"]

\* The export_functions table of get_export_function.
export_functions ==
  [tid \in {"20", "21", "22", "23", "24", "25", "26"} |->
     CASE tid = "20" -> "excel_incident_detail"
       [] tid = "21" -> "approval_list_export"
       [] tid = "22" -> "drc_summary_export"
       [] tid = "23" -> "drc_summary_rtom_export"
       [] tid = "24" -> "cpe_export"
       [] tid = "25" -> "rejected_case_export"
       [] tid = "26" -> "direct_lod_export"]

\* The file_prefixes table of get_latest_export; a prefix is the sequence
\* of its segments, so that str.startswith is IsPrefix.
file_prefixes ==
  [tid \in {"20", "21", "22", "23", "24", "25", "26"} |->
     CASE tid = "20" -> <<"incidents_details_">>
       [] tid = "21" -> <<"approval_list_">>
       [] tid = "22" -> <<"drc_summary_">>
       [] tid = "23" -> <<"drc_summary_", "rtom_">>
       [] tid = "24" -> <<"cpe_export_">>
       [] tid = "25" -> <<"rejected_export_">>
       [] tid = "26" -> <<"direct_lod_">>]

IsPrefix(p, n) == Len(p) <= Len(n) /\ SubSeq(n, 1, Len(p)) = p

\* The position in dir of the file get_latest_export returns, 0 for None.
get_latest_export(dir, template_task_id) ==
  LET prefix == IF template_task_id \in DOMAIN file_prefixes
                THEN file_prefixes[template_task_id] ELSE <<"export_">>
      matching == {i \in 1..Len(dir) : IsPrefix(prefix, dir[i].name)}
  IN  IF matching = {} THEN 0
      ELSE CHOOSE i \in matching : \A j \in matching : j <= i

\* get_export_function: <<>> when a function is returned, else the exception
GetExportFunctionError(template_task_id, importOk) ==
  IF template_task_id \notin DOMAIN export_functions
  THEN <<"ValueError", "No export function defined for template task ID",
         template_task_id>>
  ELSE IF ~importOk
  THEN <<"ImportError", "Could not import export function",
         export_functions[template_task_id]>>
  ELSE <<>>

\* update_one({"Task_Id": task_id}, {"$set": ...}) on System_tasks: the first
\* document with that Task_Id gets the fields of the update.
FirstWithId(coll, task_id) ==
  LET m == {i \in 1..Len(coll) : /\ "Task_Id" \in DOMAIN coll[i]
                                  /\ coll[i].Task_Id = task_id}
  IN  IF m = {} THEN 0 ELSE CHOOSE i \in m : \A j \in m : i <= j

SetStatus(coll, task_id, status) ==
  LET i == FirstWithId(coll, task_id)
  IN  IF i = 0 THEN coll ELSE [coll EXCEPT ![i].task_status = status]

SetResult(coll, task_id, status, description, export) ==
  LET i == FirstWithId(coll, task_id)
  IN  IF i = 0 THEN coll
      ELSE [coll EXCEPT ![i].task_status = status,
                        ![i].task_description = description,
                        ![i].export = IF export = <<>> THEN @ ELSE export]

Event(ev, task_id, val) == [ev |-> ev, task |-> task_id, val |-> val]

CurTask == task_list[ptIdx]
TaskName(t) == template_tasks[t.Template_Task_Id]

\* PTFetch taking the tasks left InProgress as well
PTFetchRetry ==
  /\ ptPc = "start"
  /\ task_list' = SelectSeq(tasks,
        LAMBDA t : t.Template_Task_Id \in DOMAIN template_tasks
                   /\ t.task_status \in {"Open", "InProgress"})
  /\ ptIdx' = 1
  /\ ptPc' = "loop"
  /\ UNCHANGED <<task_error_count, total_error_count, success, ptExc,
                 ptReturn, update_data, trace>>
  /\ UNCHANGED <<sharedVars, tmVars, exVars, auxVars>>

\* lines 39-45: find({"Template_Task_Id": {"$in": ids}, "task_status": "Open"})
PTFetch ==
  /\ ptPc = "start"
  /\ task_list' = SelectSeq(tasks,
        LAMBDA t : t.Template_Task_Id \in DOMAIN template_tasks
                   /\ t.task_status = "Open")
  /\ ptIdx' = 1
  /\ ptPc' = "loop"
  /\ UNCHANGED <<task_error_count, total_error_count, success, ptExc,
                 ptReturn, update_data, trace>>
  /\ UNCHANGED <<sharedVars, tmVars, exVars, auxVars>>

\* PTPickup without the status write of lines 55-58
PTPickupNoWrite ==
  /\ ptPc = "loop" /\ ptIdx <= Len(task_list)
  /\ task_error_count' = 0
  /\ ptPc' = "resolve"
  /\ UNCHANGED <<task_list, ptIdx, total_error_count, success, ptExc,
                 ptReturn, update_data, trace>>
  /\ UNCHANGED <<sharedVars, tmVars, exVars, auxVars>>

\* PTPickup as a conditional update: the task is taken only if it is still
\* Open, and skipped otherwise
PTPickupClaim ==
  /\ ptPc = "loop" /\ ptIdx <= Len(task_list)
  /\ task_error_count' = 0
  /\ IF tasks[FirstWithId(tasks, CurTask.Task_Id)].task_status = "Open"
     THEN /\ tasks' = SetStatus(tasks, CurTask.Task_Id, "InProgress")
          /\ trace' = Append(trace,
                             Event("write", CurTask.Task_Id, "InProgress"))
          /\ ptPc' = "resolve"
          /\ UNCHANGED ptIdx
     ELSE /\ ptIdx' = ptIdx + 1
          /\ UNCHANGED <<tasks, trace, ptPc>>
  /\ UNCHANGED <<task_list, total_error_count, success, ptExc, ptReturn,
                 update_data,
                 exports>>
  /\ UNCHANGED <<tmVars, exVars, auxVars>>

\* lines 47-58: the next task is picked up and marked InProgress
PTPickup ==
  /\ ptPc = "loop" /\ ptIdx <= Len(task_list)
  /\ "Task_Id" \in DOMAIN CurTask
  /\ task_error_count' = 0
  /\ tasks' = SetStatus(tasks, CurTask.Task_Id, "InProgress")
  /\ trace' = Append(trace, Event("write", CurTask.Task_Id, "InProgress"))
  /\ ptPc' = "resolve"
  /\ UNCHANGED <<task_list, ptIdx, total_error_count, success, ptExc,
                 ptReturn, update_data, exports>>
  /\ UNCHANGED <<tmVars, exVars, auxVars>>

\* lines 61-64 (and 97-100 when get_export_function raises)
PTResolve ==
  /\ ptPc = "resolve"
  /\ \E importOk \in BOOLEAN :
       LET e == GetExportFunctionError(CurTask.Template_Task_Id, importOk)
       IN  /\ trace' = Append(trace, Event("resolve", CurTask.Task_Id,
                                           IF e = <<>> THEN "found"
                                           ELSE e[1]))
           /\ IF e = <<>>
              THEN /\ ptPc' = "invoke"
                   /\ UNCHANGED <<ptExc, task_error_count>>
              ELSE /\ ptPc' = "failwrite"
                   /\ ptExc' = e
                   /\ task_error_count' = task_error_count + 1
  /\ UNCHANGED <<task_list, ptIdx, total_error_count, success, ptReturn,
                 update_data>>
  /\ UNCHANGED <<sharedVars, tmVars, exVars, auxVars>>

\* lines 67-74 (and 97-100 when the export function raises): the export
\* function returns true or false, or raises; it may leave a report file of
\* its type in the directory.
PTInvoke ==
  /\ ptPc = "invoke"
  /\ \E result \in {"true", "false", "raise"}, wrote \in BOOLEAN :
       /\ trace' = Append(trace, Event("invoke", CurTask.Task_Id, result))
       /\ exports' = IF wrote
                     THEN Append(exports,
                            [name |-> file_prefixes[CurTask.Template_Task_Id],
                             by |-> CurTask.Task_Id])
                     ELSE exports
       /\ IF result = "raise"
          THEN /\ ptPc' = "failwrite"
               /\ ptExc' = <<"Exception", "export failed">>
               /\ task_error_count' = task_error_count + 1
               /\ UNCHANGED success
          ELSE /\ ptPc' = "finalwrite"
               /\ success' = (result = "true")
               /\ task_error_count' = IF result = "true"
                                      THEN task_error_count
                                      ELSE task_error_count + 1
               /\ UNCHANGED ptExc
  /\ UNCHANGED <<task_list, ptIdx, total_error_count, ptReturn,
                 update_data, tasks>>
  /\ UNCHANGED <<tmVars, exVars, auxVars>>

\* lines 76-90: update_data is built from what the export returned and from
\* the newest report of the type that directory "exports" holds now
PTLatestExport ==
  /\ ptPc = "finalwrite"
  /\ LET latest == get_latest_export(exports, CurTask.Template_Task_Id)
         export == IF latest = 0 THEN <<>>
                   ELSE <<[file |-> exports[latest],
                           export_status |-> IF success THEN "Generated"
                                             ELSE "Failed"]>>
     IN  update_data' =
           <<[task_status |-> IF success THEN "Complete" ELSE "Failed",
              task_description |->
                CompletedDescription(TaskName(CurTask), task_error_count),
              export |-> export]>>
  /\ ptPc' = "finalupdate"
  /\ UNCHANGED <<task_list, ptIdx, task_error_count, total_error_count,
                 success, ptExc, ptReturn, trace>>
  /\ UNCHANGED <<sharedVars, tmVars, exVars, auxVars>>

\* PTFinalWrite writing Complete whatever the export returned
PTFinalWriteAlwaysComplete ==
  /\ ptPc = "finalupdate"
  /\ tasks' = SetResult(tasks, CurTask.Task_Id, "Complete",
                CompletedDescription(TaskName(CurTask), task_error_count),
                <<>>)
  /\ trace' = Append(trace, Event("write", CurTask.Task_Id, "Complete"))
  /\ total_error_count' = total_error_count + task_error_count
  /\ ptIdx' = ptIdx + 1
  /\ ptPc' = "loop"
  /\ UNCHANGED <<task_list, task_error_count, success, ptExc, ptReturn,
                 update_data, exports>>
  /\ UNCHANGED <<tmVars, exVars, auxVars>>

\* lines 92-95, 102 and 114-115: update_one writes update_data
PTFinalWrite ==
  /\ ptPc = "finalupdate"
  /\ tasks' = SetResult(tasks, CurTask.Task_Id, update_data[1].task_status,
                update_data[1].task_description, update_data[1].export)
  /\ trace' = Append(trace, Event("write", CurTask.Task_Id,
                                  update_data[1].task_status))
  /\ total_error_count' = total_error_count + task_error_count
  /\ ptIdx' = ptIdx + 1
  /\ ptPc' = "loop"
  /\ UNCHANGED <<task_list, task_error_count, success, ptExc, ptReturn,
                 update_data, exports>>
  /\ UNCHANGED <<tmVars, exVars, auxVars>>

\* PTFailWrite re-raising after the write, which ends the loop
PTFailWriteAbort ==
  /\ ptPc = "failwrite"
  /\ tasks' = SetResult(tasks, CurTask.Task_Id, "Failed",
                FailedDescription(TaskName(CurTask), ptExc), <<>>)
  /\ trace' = Append(trace, Event("write", CurTask.Task_Id, "Failed"))
  /\ task_error_count' = task_error_count + 1
  /\ total_error_count' = total_error_count + task_error_count'
  /\ ptIdx' = ptIdx + 1
  /\ ptPc' = "done"
  /\ UNCHANGED <<task_list, success, ptExc, ptReturn, update_data, exports>>
  /\ UNCHANGED <<tmVars, exVars, auxVars>>

\* lines 104-115: the exception handler of the task
PTFailWrite ==
  /\ ptPc = "failwrite"
  /\ tasks' = SetResult(tasks, CurTask.Task_Id, "Failed",
                FailedDescription(TaskName(CurTask), ptExc), <<>>)
  /\ trace' = Append(trace, Event("write", CurTask.Task_Id, "Failed"))
  /\ task_error_count' = task_error_count + 1
  /\ total_error_count' = total_error_count + task_error_count'
  /\ ptIdx' = ptIdx + 1
  /\ ptPc' = "loop"
  /\ UNCHANGED <<task_list, success, ptExc, ptReturn, update_data, exports>>
  /\ UNCHANGED <<tmVars, exVars, auxVars>>

\* lines 117-118
PTReturn ==
  /\ ptPc = "loop" /\ ptIdx > Len(task_list)
  /\ ptReturn' = IF total_error_count = 0 THEN "True" ELSE "False"
  /\ ptPc' = "done"
  /\ UNCHANGED <<task_list, ptIdx, task_error_count, total_error_count,
                 success, ptExc, update_data, trace>>
  /\ UNCHANGED <<sharedVars, tmVars, exVars, auxVars>>

\* The collections process_tasks can find when it starts.
PTTemplateIds == {"20", "27", "30"}
PTStatuses == {"Open", "Complete"}

TaskLists(ids, statuses) ==
  UNION { { [i \in 1..n |-> TaskDoc(f[i][1], i, f[i][2])] :
            f \in [1..n -> ids \X statuses] } : n \in 0..MaxTasks }

OldExports == {<<>>, <<[name |-> file_prefixes["20"], by |-> 0]>>}

Init ==
  /\ tasks \in TaskLists(PTTemplateIds, PTStatuses)
  /\ exports \in OldExports
  /\ ptPc = "start" /\ task_list = <<>> /\ ptIdx = 0
  /\ task_error_count = 0 /\ total_error_count = 0 /\ success = FALSE
  /\ ptExc = <<>> /\ ptReturn = None /\ update_data = <<>>
  /\ trace = <<>>
  /\ TMIdle /\ EXIdle /\ AuxIdle

Next ==
  \/ PTFetch \/ PTPickup \/ PTResolve \/ PTInvoke \/ PTLatestExport
  \/ PTFinalWrite \/ PTFailWrite \/ PTReturn

Spec == Init /\ [][Next]_vars

(***************************************************************************)
(* manipulation/task_manager.py and tasks/task_handler.py                  *)
(***************************************************************************)
\* The template ids for which TaskHandlers defines handle_task_<id>.
HandlerIds == {20, 21}

\* getattr(task_handlers, f"handle_task_{template_id}", None) is not None
HasHandler(template_id) == template_id \in HandlerIds

\* lines 67-69: no template ids are configured
TMNoTemplates ==
  /\ tmPc = "start" /\ template_ids = <<>>
  /\ tmLog' = Append(tmLog, Event("error", 0, "No template task IDs"))
  /\ tmPc' = "done"
  /\ UNCHANGED <<template_ids, tmK, tmCursor, tmI>>
  /\ UNCHANGED <<sharedVars, ptVars, exVars, auxVars>>

\* lines 71-74
TMStart ==
  /\ tmPc = "start" /\ template_ids # <<>>
  /\ tmK' = 1
  /\ tmPc' = "find"
  /\ UNCHANGED <<template_ids, tmCursor, tmI, tmLog>>
  /\ UNCHANGED <<sharedVars, ptVars, exVars, auxVars>>

\* lines 76-82: find({"Template_Task_Id": task_id, "task_status": "open"})
TMFind ==
  /\ tmPc = "find" /\ tmK <= Len(template_ids)
  /\ tmCursor' = SelectSeq(tasks,
        LAMBDA t : t.Template_Task_Id = template_ids[tmK]
                   /\ t.task_status = "open")
  /\ tmI' = 1
  /\ tmPc' = "task"
  /\ UNCHANGED <<template_ids, tmK, tmLog>>
  /\ UNCHANGED <<sharedVars, ptVars, exVars, auxVars>>

\* lines 83-92: the task has no handler
TMNoHandler ==
  /\ tmPc = "task" /\ tmI <= Len(tmCursor)
  /\ ~HasHandler(tmCursor[tmI].Template_Task_Id)
  /\ tmLog' = Append(tmLog, Event("error", tmCursor[tmI].Task_Id,
                                  "No handler for template"))
  /\ tmI' = tmI + 1
  /\ UNCHANGED <<tmPc, template_ids, tmK, tmCursor>>
  /\ UNCHANGED <<sharedVars, ptVars, exVars, auxVars>>

\* The parameters documents a task can carry: none, one the export rejects,
\* and one with a key no handler takes.
TaskParameters ==
  {EmptyDict, [action_type |-> "invalid_value"], [unknown |-> "x"]}

\* lines 83-98: the handler is called with the parameters of the task; it
\* runs its export function, which writes the report and the audit records,
\* or raises.  The log keeps "true" or "false" for what the export returned.
\* A handler works on the report directory and the download collections
\* only, never on System_tasks.
TMHandle ==
  /\ tmPc = "task" /\ tmI <= Len(tmCursor)
  /\ HasHandler(tmCursor[tmI].Template_Task_Id)
  /\ \E params \in TaskParameters, nrec \in 0..MaxRecords,
        auditOk \in BOOLEAN, recordOk \in BOOLEAN :
       LET o == CallHandler(tmCursor[tmI].Template_Task_Id, params, nrec,
                            clock, auditOk, recordOk)
           result == IF o.handler_ret = "raise" THEN "raise"
                     ELSE IF o.ret THEN "true" ELSE "false"
       IN  /\ tmLog' = Append(tmLog,
                              Event("handler", tmCursor[tmI].Task_Id, result))
           /\ disk' = disk \o o.files
           /\ file_download_log' = file_download_log \o o.audits
           /\ download' = download \o o.downloads
  /\ tmI' = tmI + 1
  /\ UNCHANGED <<tmPc, template_ids, tmK, tmCursor>>
  /\ UNCHANGED <<call, out, clock, ncalls>>
  /\ UNCHANGED <<sharedVars, ptVars, peer, System_tasks_Inprogress, extVars>>

\* line 76: the cursor is exhausted, on to the next template id
TMNextTemplate ==
  /\ tmPc = "task" /\ tmI > Len(tmCursor)
  /\ tmK' = tmK + 1
  /\ tmPc' = "find"
  /\ UNCHANGED <<template_ids, tmCursor, tmI, tmLog>>
  /\ UNCHANGED <<sharedVars, ptVars, exVars, auxVars>>

\* the template ids are exhausted: execute_tasks returns
TMReturn ==
  /\ tmPc = "find" /\ tmK > Len(template_ids)
  /\ tmPc' = "done"
  /\ UNCHANGED <<template_ids, tmK, tmCursor, tmI, tmLog>>
  /\ UNCHANGED <<sharedVars, ptVars, exVars, auxVars>>

\* The collections and configurations execute_tasks can find.
TMTemplateIds == {20, 21, 22, 30}
TMStatuses == {"open", "Complete"}
TMConfigs == {<<>>, <<20>>, <<21>>, <<20, 21>>, <<20, 22>>, <<22, 20>>}

InitTM ==
  /\ tasks \in TaskLists(TMTemplateIds, TMStatuses)
  /\ exports = <<>>
  /\ template_ids \in TMConfigs
  /\ tmPc = "start" /\ tmK = 0 /\ tmCursor = <<>> /\ tmI = 0 /\ tmLog = <<>>
  /\ PTIdle /\ EXIdle /\ AuxIdle

NextTM ==
  \/ TMNoTemplates \/ TMStart \/ TMFind \/ TMNoHandler \/ TMHandle
  \/ TMNextTemplate \/ TMReturn

SpecTM == InitTM /\ [][NextTM]_vars

\* Either dispatcher, started on its own collection.
InitDispatch == Init \/ InitTM
NextDispatch == Next \/ NextTM
SpecDispatch == InitDispatch /\ [][NextDispatch]_vars

(***************************************************************************)
(* Several runs of process_tasks on one System_tasks collection            *)
(***************************************************************************)
\* The locals of the running process_tasks, as a record
Locals(id) ==
  [id |-> id, pc |-> ptPc, task_list |-> task_list, idx |-> ptIdx,
   task_error_count |-> task_error_count,
   total_error_count |-> total_error_count, success |-> success,
   exc |-> ptExc, ret |-> ptReturn, update_data |-> update_data,
   trace |-> trace]

\* The locals of a run that has not executed its first statement
Fresh(id) == [NoPeer EXCEPT !.id = id, !.pc = "start"]

\* r becomes the running process_tasks
Resume(r) ==
  /\ ptPc' = r.pc /\ task_list' = r.task_list /\ ptIdx' = r.idx
  /\ task_error_count' = r.task_error_count
  /\ total_error_count' = r.total_error_count /\ success' = r.success
  /\ ptExc' = r.exc /\ ptReturn' = r.ret /\ trace' = r.trace
  /\ update_data' = r.update_data

\* Two instances of process_tasks run concurrently, each statement that
\* reads or writes the store being one step: the scheduler suspends the
\* running instance and resumes the other.
PTSwitch ==
  /\ peer.id # 0 /\ peer.pc \notin {"crashed", "idle"}
  /\ ptPc # "crashed"
  /\ peer' = Locals(3 - peer.id)
  /\ Resume(peer)
  /\ UNCHANGED <<sharedVars, tmVars, exVars, System_tasks_Inprogress,
                 download, extVars>>

\* The collections two concurrent instances are started on
ConcurrentTaskLists ==
  {t \in TaskLists(PTTemplateIds, PTStatuses) : Len(t) <= MaxConcurrentTasks}

InitConcurrent ==
  /\ tasks \in ConcurrentTaskLists
  /\ exports \in OldExports
  /\ ptPc = "start" /\ task_list = <<>> /\ ptIdx = 0
  /\ task_error_count = 0 /\ total_error_count = 0 /\ success = FALSE
  /\ ptExc = <<>> /\ ptReturn = None /\ update_data = <<>>
  /\ trace = <<>>
  /\ peer = Fresh(2)
  /\ System_tasks_Inprogress = <<>> /\ download = <<>>
  /\ TMIdle /\ EXIdle /\ ExtIdle

NextConcurrent == Next \/ PTSwitch

SpecConcurrent == InitConcurrent /\ [][NextConcurrent]_vars

\* The process running process_tasks stops (it is killed, or the host goes
\* down) at any statement of the function.
PTCrash ==
  /\ ptPc \in {"start", "loop", "resolve", "invoke", "finalwrite",
                "finalupdate", "failwrite"}
  /\ ptPc' = "crashed"
  /\ UNCHANGED <<task_list, ptIdx, task_error_count, total_error_count,
                 success, ptExc, ptReturn, update_data, trace>>
  /\ UNCHANGED <<sharedVars, tmVars, exVars, auxVars>>

\* process_tasks is run again after a run that returned or crashed; peer
\* keeps the locals the earlier run ended with.
PTRunAgain ==
  /\ peer.id = 0 /\ ptPc \in {"done", "crashed"}
  /\ peer' = Locals(1)
  /\ Resume(Fresh(2))
  /\ UNCHANGED <<sharedVars, tmVars, exVars, System_tasks_Inprogress,
                 download, extVars>>

NextCrash == Next \/ PTCrash \/ PTRunAgain

SpecCrash == Init /\ [][NextCrash]_vars

(***************************************************************************)
(* process_tasks on a store that can fail and on malformed documents       *)
(***************************************************************************)
\* A task document without the field Task_Id
TaskDocNoId(template_task_id, status) ==
  [Template_Task_Id |-> template_task_id, task_status |-> status,
   task_description |-> NoDescription, export |-> <<>>]

\* line 50: task["Task_Id"] of a document without that field raises
\* KeyError.  The statement is outside the try of the task, so neither the
\* handler of lines 104-113 nor the finally of line 115 runs: the exception
\* leaves the loop and is raised again by line 122.
PTKeyError ==
  /\ ptPc = "loop" /\ ptIdx <= Len(task_list)
  /\ "Task_Id" \notin DOMAIN CurTask
  /\ task_error_count' = 0
  /\ ptExc' = <<"KeyError", "Task_Id">>
  /\ ptPc' = "raised"
  /\ UNCHANGED <<task_list, ptIdx, total_error_count, success, ptReturn,
                 update_data,
                 trace>>
  /\ UNCHANGED <<sharedVars, tmVars, exVars, auxVars>>

\* lines 105-111 when update_one itself raises: the exception leaves the
\* handler before line 113, the finally of line 115 adds the errors counted
\* so far, and the exception leaves the loop and is raised again by line 122.
PTFailWriteRaises ==
  /\ ptPc = "failwrite"
  /\ ptExc' = <<"PyMongoError", "update_one failed">>
  /\ total_error_count' = total_error_count + task_error_count
  /\ ptPc' = "raised"
  /\ UNCHANGED <<task_list, ptIdx, task_error_count, success, ptReturn,
                 update_data,
                 trace>>
  /\ UNCHANGED <<sharedVars, tmVars, exVars, auxVars>>

\* The collections process_tasks can find, documents without Task_Id included
FaultTaskLists ==
  UNION { { [i \in 1..n |-> IF f[i][3]
                            THEN TaskDoc(f[i][1], i, f[i][2])
                            ELSE TaskDocNoId(f[i][1], f[i][2])] :
            f \in [1..n -> PTTemplateIds \X PTStatuses \X BOOLEAN] } :
          n \in 0..MaxTasks }

InitFault ==
  /\ tasks \in FaultTaskLists
  /\ exports \in OldExports
  /\ ptPc = "start" /\ task_list = <<>> /\ ptIdx = 0
  /\ task_error_count = 0 /\ total_error_count = 0 /\ success = FALSE
  /\ ptExc = <<>> /\ ptReturn = None /\ update_data = <<>>
  /\ trace = <<>>
  /\ TMIdle /\ EXIdle /\ AuxIdle

NextFault == Next \/ PTKeyError \/ PTFailWriteRaises

SpecFault == InitFault /\ [][NextFault]_vars

(***************************************************************************)
(* db_operations/db_operations.py                                          *)
(***************************************************************************)
\* get_open_tasks: delete_many({"task_status": {"$in": ["Completed",
\* "Failed"]}}) on System_tasks_Inprogress; when the call raises, the
\* exception is logged and the collection stays as it is.
get_open_tasks ==
  /\ \E deleteOk \in BOOLEAN :
       System_tasks_Inprogress' =
         IF deleteOk
         THEN SelectSeq(System_tasks_Inprogress,
                LAMBDA t : t.task_status \notin {"Completed", "Failed"})
         ELSE System_tasks_Inprogress
  /\ UNCHANGED <<sharedVars, ptVars, tmVars, exVars, peer, download,
                 extVars>>

\* The documents of System_tasks_Inprogress when the program starts
InprogressStatuses == {"InProgress", "Completed", "Failed"}
InprogressLists ==
  UNION { { [i \in 1..n |-> TaskDoc("20", i, f[i])] :
            f \in [1..n -> InprogressStatuses] } : n \in 0..MaxTasks }

InitStore ==
  /\ tasks \in TaskLists(PTTemplateIds, PTStatuses)
  /\ exports \in OldExports
  /\ ptPc = "start" /\ task_list = <<>> /\ ptIdx = 0
  /\ task_error_count = 0 /\ total_error_count = 0 /\ success = FALSE
  /\ ptExc = <<>> /\ ptReturn = None /\ update_data = <<>>
  /\ trace = <<>>
  /\ peer = NoPeer /\ download = <<>>
  /\ System_tasks_Inprogress \in InprogressLists
  /\ TMIdle /\ EXIdle /\ ExtIdle

NextStore == Next \/ get_open_tasks

SpecStore == InitStore /\ [][NextStore]_vars

(***************************************************************************)
(* Calls of the export functions                                           *)
(***************************************************************************)
ActionInputs ==
  {None, "collect arrears and CPE", "collect arrears", "collect CPE",
   "invalid_value"}
StatusInputs ==
  {None, "Incident Open", "Incident close", "Incident reject", "Reject",
   "Complete", "Incident Error", "Incident Inprogress", "Incident Close"}
DateInputs == {None} \cup DateStrings
ApprovalInputs == {None, "a1", "a2", "a3"}
DrcInputs == {None, "D1", "D2", "D3"}
BatchInputs == {<<>>, <<1>>, <<2>>, <<3>>, <<4>>}
ApproveArrays == {<<>>, <<"a1">>, <<"a2">>}
CaseLists == UNION {[1..n -> ApproveArrays] : n \in 0..MaxRecords}

IncidentCalls ==
  [fn : {"incident"}, action_type : ActionInputs, status : StatusInputs,
   from_date : DateInputs, to_date : DateInputs, nrec : 0..MaxRecords,
   auditOk : BOOLEAN]
ApprovalCalls ==
  [fn : {"approval"}, approval_type : ApprovalInputs,
   from_date : DateInputs, to_date : DateInputs, cases : CaseLists]
SummaryCalls ==
  [fn : {"summary"}, drc : DrcInputs, batch_id : BatchInputs,
   nrec : 0..MaxRecords]

DrcRuleInputs == {None, "PEO TV", "BB", "XX"}
CaseStatusInputs == {None, "Pending FMB", "In progress", "Closed", "Open"}
DelegateInputs == {None} \cup DOMAIN Strip
InteractionInputs == {None, "FMB", "Admin", "Other"}
AcceptInputs == {None, "Approved", "Rejected", "Other"}
ApproverInputs == {None, "k1", "k2", "k3"}

DirectLodCalls ==
  [fn : {"direct_lod"}, from_date : DateInputs, to_date : DateInputs,
   drc_commision_rule : DrcRuleInputs, nrec : 0..MaxRecords,
   auditOk : BOOLEAN]
CpeCalls ==
  [fn : {"cpe"}, from_date : DateInputs, to_date : DateInputs,
   drc_commision_rule : DrcRuleInputs, nrec : 0..MaxRecords,
   auditOk : BOOLEAN]
CaseCalls ==
  [fn : {"case"}, case_current_status : CaseStatusInputs,
   date_from : DateInputs, date_to : DateInputs, nrec : 0..MaxRecords]
RequestLogCalls ==
  [fn : {"request_log"}, delegate_user_id : DelegateInputs,
   User_Interaction_Type : InteractionInputs, requestAccept : AcceptInputs,
   date_from : DateInputs, date_to : DateInputs, nrec : 0..MaxRecords]
BatchApprovalCalls ==
  [fn : {"batch_approval"}, approver_ref : ApproverInputs,
   nrec : 0..MaxRecords]
BatchListCalls ==
  [fn : {"batch_list"}, case_distribution_batch_id : BatchInputs,
   nrec : 0..MaxRecords, auditOk : BOOLEAN]
Handler20Calls ==
  [fn : {"handle_task_20"}, action_type : ActionInputs,
   status : StatusInputs, from_date : DateInputs, to_date : DateInputs,
   nrec : 0..MaxRecords, auditOk : BOOLEAN, recordOk : BOOLEAN]

IncidentOpenCalls ==
  [fn : {"incident_open"}, nrec : 0..MaxRecords, auditOk : BOOLEAN]
Handler21Calls ==
  [fn : {"handle_task_21"}, nrec : 0..MaxRecords, auditOk : BOOLEAN,
   recordOk : BOOLEAN]

RejectedActionInputs == {None, "collect CPE", "collect arrears", "other"}
PendingRuleInputs ==
  {NoRules, [kind |-> "list", items |-> <<>>],
   [kind |-> "list", items |-> <<"R1">>],
   [kind |-> "other", items |-> <<"R1">>]}
ArrearsBandInputs == {None, "AB-5_10", "AB-25_50", "AB-0_5"}
RuleInputs == {None, "PEO TV", "XX"}

RejectedCalls ==
  [fn : {"rejected"}, actions : RejectedActionInputs,
   drc_commision_rule : RuleInputs, from_date : DateInputs,
   to_date : DateInputs, nrec : 0..MaxRecords, auditOk : BOOLEAN]
PendingRejectCalls ==
  [fn : {"pending_reject"}, drc_commission_rules : PendingRuleInputs,
   from_date : DateInputs, to_date : DateInputs, nrec : 0..MaxRecords,
   auditOk : BOOLEAN]
CaseDistributionCalls ==
  [fn : {"case_distribution"}, arrears_band : ArrearsBandInputs,
   drc_commision_rule : RuleInputs, from_date : DateInputs,
   to_date : DateInputs, nrec : 0..MaxRecords, auditOk : BOOLEAN]
LodReminderCalls ==
  [fn : {"lod_reminder"}, case_current_status : RejectedActionInputs,
   current_document_type : DrcRuleInputs, nrec : 0..MaxRecords]

\* The effects of one call on the report directory and the audit collection
Apply(o) ==
  /\ out' = <<o>>
  /\ disk' = disk \o o.files
  /\ file_download_log' = file_download_log \o o.audits
  /\ download' = download \o o.downloads
  /\ ncalls' = ncalls + 1
  /\ UNCHANGED <<call, clock>>
  /\ UNCHANGED <<sharedVars, ptVars, tmVars, peer, System_tasks_Inprogress,
                 extVars>>

ExIncident ==
  /\ call.fn = "incident" /\ ncalls < MaxCalls
  /\ Apply(excel_incident_detail(call.action_type, call.status,
              call.from_date, call.to_date, call.nrec, clock, call.auditOk))

ExApproval ==
  /\ call.fn = "approval" /\ ncalls < MaxCalls
  /\ Apply(excel_drc_approval_detail(call.approval_type, call.from_date,
              call.to_date, call.cases, clock))

ExSummary ==
  /\ call.fn = "summary" /\ ncalls < MaxCalls
  /\ Apply(excel_drc_summary_detail(call.drc, call.batch_id, call.nrec,
              clock))

ExDirectLod ==
  /\ call.fn = "direct_lod" /\ ncalls < MaxCalls
  /\ Apply(excel_direct_lod_detail(call.from_date, call.to_date,
              call.drc_commision_rule, call.nrec, clock, call.auditOk))

ExCpe ==
  /\ call.fn = "cpe" /\ ncalls < MaxCalls
  /\ Apply(excel_cpe_detail(call.from_date, call.to_date,
              call.drc_commision_rule, call.nrec, clock, call.auditOk))

ExCase ==
  /\ call.fn = "case" /\ ncalls < MaxCalls
  /\ Apply(excel_case_detail(call.case_current_status, call.date_from,
              call.date_to, call.nrec, clock))

ExRequestLog ==
  /\ call.fn = "request_log" /\ ncalls < MaxCalls
  /\ Apply(excel_request_log_detail(call.delegate_user_id,
              call.User_Interaction_Type, call.requestAccept, call.date_from,
              call.date_to, call.nrec, clock))

ExBatchApproval ==
  /\ call.fn = "batch_approval" /\ ncalls < MaxCalls
  /\ Apply(excel_drc_assign_batch_approval(call.approver_ref, call.nrec,
              clock))

ExBatchList ==
  /\ call.fn = "batch_list" /\ ncalls < MaxCalls
  /\ Apply(excel_case_distribution_transaction_batch_detail(
              call.case_distribution_batch_id, call.nrec, clock,
              call.auditOk))

ExHandler20 ==
  /\ call.fn = "handle_task_20" /\ ncalls < MaxCalls
  /\ Apply(handle_task_20(call.action_type, call.status, call.from_date,
              call.to_date, call.nrec, clock, call.auditOk, call.recordOk))

ExRejected ==
  /\ call.fn = "rejected" /\ ncalls < MaxCalls
  /\ Apply(excel_rejected_detail(call.actions, call.drc_commision_rule,
                                 call.from_date, call.to_date, call.nrec,
                                 clock, call.auditOk))

ExPendingReject ==
  /\ call.fn = "pending_reject" /\ ncalls < MaxCalls
  /\ Apply(excel_pending_reject_incident(call.drc_commission_rules,
                                         call.from_date, call.to_date,
                                         call.nrec, clock, call.auditOk))

ExCaseDistribution ==
  /\ call.fn = "case_distribution" /\ ncalls < MaxCalls
  /\ Apply(excel_case_distribution_detail(call.arrears_band,
                                          call.drc_commision_rule,
                                          call.from_date, call.to_date,
                                          call.nrec, clock, call.auditOk))

ExLodReminder ==
  /\ call.fn = "lod_reminder" /\ ncalls < MaxCalls
  /\ Apply(excel_lod_or_final_reminder_detail(call.case_current_status,
                                              call.current_document_type,
                                              call.nrec, clock))

ExIncidentOpen ==
  /\ call.fn = "incident_open" /\ ncalls < MaxCalls
  /\ Apply(excel_incident_open_distribution(call.nrec, clock, call.auditOk))

ExHandler21 ==
  /\ call.fn = "handle_task_21" /\ ncalls < MaxCalls
  /\ Apply(handle_task_21(call.nrec, clock, call.auditOk, call.recordOk))

\* datetime.now() advances between two calls of an export function
TickMicro ==
  /\ clock.us < MaxMicro
  /\ clock' = [clock EXCEPT !.us = @ + 1]
  /\ UNCHANGED <<call, out, disk, file_download_log, ncalls>>
  /\ UNCHANGED <<sharedVars, ptVars, tmVars, auxVars>>

TickSecond ==
  /\ clock.s < MaxSecond
  /\ clock' = [s |-> clock.s + 1, us |-> 0]
  /\ UNCHANGED <<call, out, disk, file_download_log, ncalls>>
  /\ UNCHANGED <<sharedVars, ptVars, tmVars, auxVars>>

InitEx ==
  /\ call \in IncidentCalls \cup ApprovalCalls \cup SummaryCalls
              \cup DirectLodCalls \cup CpeCalls \cup CaseCalls
              \cup RequestLogCalls \cup BatchApprovalCalls
              \cup BatchListCalls \cup Handler20Calls
              \cup IncidentOpenCalls \cup Handler21Calls
              \cup RejectedCalls \cup PendingRejectCalls
              \cup CaseDistributionCalls \cup LodReminderCalls
  /\ out = <<>> /\ disk = <<>> /\ file_download_log = <<>>
  /\ clock = [s |-> 0, us |-> 0] /\ ncalls = 0
  /\ tasks = <<>> /\ exports = <<>>
  /\ PTIdle /\ TMIdle /\ AuxIdle

NextEx ==
  \/ ExIncident \/ ExApproval \/ ExSummary \/ ExDirectLod \/ ExCpe \/ ExCase
  \/ ExRequestLog \/ ExBatchApproval \/ ExBatchList \/ ExHandler20
  \/ ExIncidentOpen \/ ExHandler21
  \/ ExRejected \/ ExPendingReject \/ ExCaseDistribution \/ ExLodReminder
  \/ TickMicro \/ TickSecond

SpecEx == InitEx /\ [][NextEx]_vars

(***************************************************************************)
(* Direct calls of the renderers                                           *)
(***************************************************************************)
StrVals(v) == {None, v}

DateRangeInputs ==
  {<<a, b>> : a \in {<<>>, <<strptime("2025-01-01")>>},
              b \in {<<>>, <<strptime("2025-01-31")>>}}

\* The filters arguments: no dict (or an empty one), the dict the export
\* function builds, and for create_incident_table a dict that lacks keys
IncidentFilterInputs ==
  {EmptyDict, [action |-> "collect CPE"]}
  \cup [action : StrVals("collect CPE"), status : StrVals("Reject"),
        date_range : DateRangeInputs]

RenderFilterInputs ==
  [incident |-> IncidentFilterInputs,
   direct_lod |-> {EmptyDict}
     \cup [incident_status : {"Direct LOD"},
           drc_commision_rule : StrVals("BB"), date_range : DateRangeInputs],
   batch_approval |-> {EmptyDict} \cup [approver_ref : StrVals("k1")],
   approval |-> {EmptyDict}
     \cup [approval_type : StrVals("a1"), date_range : DateRangeInputs],
   summary |-> {EmptyDict}
     \cup [drc : StrVals("D1"),
           case_distribution_batch_id : {<<>>, <<1>>}],
   distribution |-> {EmptyDict}
     \cup [case_distribution_batch_id : {<<>>, <<1>>}],
   cpe |-> {EmptyDict, [drc_commision_rule |-> "BB"]}
     \cup [action : {"collect CPE"}, drc_commision_rule : StrVals("PEO TV"),
           date_range : DateRangeInputs],
   request |-> {EmptyDict}
     \cup [delegate_user_id : StrVals("u1"),
           interaction_type : StrVals("FMB"),
           request_accept : StrVals("Approved"),
           date_range : DateRangeInputs],
   case |-> {EmptyDict}
     \cup [status : StrVals("Closed"), date_range : DateRangeInputs],
   rejected |-> {EmptyDict}
     \cup [actions : StrVals("collect CPE"),
           drc_commision_rule : StrVals("BB"), date_range : DateRangeInputs],
   pending_reject |-> {EmptyDict}
     \cup [drc_commission_rules : {<<>>, <<"R1">>},
           date_range : DateRangeInputs],
   lod_reminder |-> {EmptyDict}
     \cup [actions : StrVals("collect CPE"),
           drc_commision_rule : StrVals("BB"), date_range : DateRangeInputs],
   incident_open |-> {EmptyDict}]

RenderCalls ==
  UNION {[fn : {fn}, ndata : 0..MaxRecords, filters : RenderFilterInputs[fn]] :
           fn \in DOMAIN RenderFilterInputs}

Rendered(sheet) ==
  /\ rnSheet = NoSheet
  /\ rnSheet' = sheet
  /\ UNCHANGED <<rnCall, clVars, peer, System_tasks_Inprogress, download>>
  /\ UNCHANGED <<sharedVars, ptVars, tmVars, exVars>>

RnIncident ==
  /\ rnCall.fn = "incident"
  /\ Rendered(create_incident_table(rnCall.ndata, rnCall.filters))

RnDirectLod ==
  /\ rnCall.fn = "direct_lod"
  /\ Rendered(create_direct_lod_table(rnCall.ndata, rnCall.filters))

RnBatchApproval ==
  /\ rnCall.fn = "batch_approval"
  /\ Rendered(create_drc_assign_batch_approval_table(rnCall.ndata,
                                                      rnCall.filters))

RnApproval ==
  /\ rnCall.fn = "approval"
  /\ Rendered(create_approval_table(rnCall.ndata, rnCall.filters))

RnSummary ==
  /\ rnCall.fn = "summary"
  /\ Rendered(create_drc_summary_table(rnCall.ndata, rnCall.filters))

RnDistribution ==
  /\ rnCall.fn = "distribution"
  /\ Rendered(create_distribution_table(rnCall.ndata, rnCall.filters))

RnCpe ==
  /\ rnCall.fn = "cpe"
  /\ Rendered(create_cpe_table(rnCall.ndata, rnCall.filters))

RnRequest ==
  /\ rnCall.fn = "request"
  /\ Rendered(create_request_table(rnCall.ndata, rnCall.filters))

RnCase ==
  /\ rnCall.fn = "case"
  /\ Rendered(create_case_table(rnCall.ndata, rnCall.filters))

RnRejected ==
  /\ rnCall.fn = "rejected"
  /\ Rendered(create_rejected_table(rnCall.ndata, rnCall.filters))

RnPendingReject ==
  /\ rnCall.fn = "pending_reject"
  /\ Rendered(create_pending_reject_incident_table(rnCall.ndata,
                                                    rnCall.filters))

RnLodReminder ==
  /\ rnCall.fn = "lod_reminder"
  /\ Rendered(create_each_lod_or_final_reminder_table(rnCall.ndata,
                                                       rnCall.filters))

\* create_incident_open_distribution_table takes no filters argument
RnIncidentOpen ==
  /\ rnCall.fn = "incident_open"
  /\ Rendered(create_incident_open_distribution_table(rnCall.ndata))

InitRender ==
  /\ rnCall \in RenderCalls /\ rnSheet = NoSheet /\ CLIdle
  /\ tasks = <<>> /\ exports = <<>>
  /\ peer = NoPeer /\ System_tasks_Inprogress = <<>> /\ download = <<>>
  /\ PTIdle /\ TMIdle /\ EXIdle

NextRender ==
  \/ RnIncident \/ RnDirectLod \/ RnBatchApproval \/ RnApproval
  \/ RnSummary \/ RnDistribution \/ RnCpe \/ RnRequest \/ RnCase
  \/ RnRejected \/ RnPendingReject \/ RnLodReminder \/ RnIncidentOpen

SpecRender == InitRender /\ [][NextRender]_vars

(***************************************************************************)
(* utils/config_loader.py                                                  *)
(***************************************************************************)
\* Several threads call ConfigLoaderSingleton() concurrently.  A step is one
\* statement of __new__ or one attribute assignment of _load_config; the
\* interpreter can switch threads between any two of them.  _instance is <<>>
\* for None and <<t>> for the object thread t created; an attribute of the
\* instance is "unset" while the object does not have it.
At(t, pc) == clPc[t] = pc
Goto(t, pc) == clPc' = [clPc EXCEPT ![t] = pc]

\* What a step of a constructor call leaves alone
CLFrame ==
  /\ UNCHANGED <<rnCall, rnSheet, peer, System_tasks_Inprogress, download>>
  /\ UNCHANGED <<sharedVars, ptVars, tmVars, exVars>>

\* line 15: the test made without the lock
CLCheck(t) ==
  /\ At(t, "check")
  /\ Goto(t, IF cls_instance = <<>> THEN "acquire" ELSE "return")
  /\ UNCHANGED <<cls_instance, cls_lock, inst_config, inst_environment,
                 load_count, clRet>>
  /\ CLFrame

\* line 16: with cls._lock
CLAcquire(t) ==
  /\ At(t, "acquire") /\ cls_lock = 0
  /\ cls_lock' = t
  /\ Goto(t, "recheck")
  /\ UNCHANGED <<cls_instance, inst_config, inst_environment, load_count,
                 clRet>>
  /\ CLFrame

\* line 17: the test made with the lock held
CLRecheck(t) ==
  /\ At(t, "recheck")
  /\ Goto(t, IF cls_instance = <<>> THEN "create" ELSE "release")
  /\ UNCHANGED <<cls_instance, cls_lock, inst_config, inst_environment,
                 load_count, clRet>>
  /\ CLFrame

\* line 18: cls._instance = super().__new__(cls)
CLCreate(t) ==
  /\ At(t, "create")
  /\ cls_instance' = <<t>>
  /\ Goto(t, "load")
  /\ UNCHANGED <<cls_lock, inst_config, inst_environment, load_count, clRet>>
  /\ CLFrame

\* lines 19 and 23-30: _load_config is called; the file is found and
\* self.config is set, or FileNotFoundError is raised
CLLoadConfig(t) ==
  /\ At(t, "load")
  /\ load_count' = load_count + 1
  /\ \E found \in BOOLEAN :
       IF found
       THEN inst_config' = "set" /\ Goto(t, "environment")
       ELSE UNCHANGED inst_config /\ Goto(t, "except")
  /\ UNCHANGED <<cls_instance, cls_lock, inst_environment, clRet>>
  /\ CLFrame

\* lines 32-35: self.environment is set, or KeyError is raised
CLLoadEnvironment(t) ==
  /\ At(t, "environment")
  /\ \E present \in BOOLEAN :
       IF present
       THEN inst_environment' = "set" /\ Goto(t, "release")
       ELSE UNCHANGED inst_environment /\ Goto(t, "except")
  /\ UNCHANGED <<cls_instance, cls_lock, inst_config, load_count, clRet>>
  /\ CLFrame

\* line 39: self.config = None
CLExceptConfig(t) ==
  /\ At(t, "except")
  /\ inst_config' = None
  /\ Goto(t, "except_environment")
  /\ UNCHANGED <<cls_instance, cls_lock, inst_environment, load_count,
                 clRet>>
  /\ CLFrame

\* line 40: self.environment = None
CLExceptEnvironment(t) ==
  /\ At(t, "except_environment")
  /\ inst_environment' = None
  /\ Goto(t, "release")
  /\ UNCHANGED <<cls_instance, cls_lock, inst_config, load_count, clRet>>
  /\ CLFrame

\* the end of the with block of line 16
CLRelease(t) ==
  /\ At(t, "release") /\ cls_lock = t
  /\ cls_lock' = 0
  /\ Goto(t, "return")
  /\ UNCHANGED <<cls_instance, inst_config, inst_environment, load_count,
                 clRet>>
  /\ CLFrame

\* line 20: return cls._instance; clRet keeps the object returned and the
\* attributes it had when the caller received it
CLReturn(t) ==
  /\ At(t, "return")
  /\ clRet' = [clRet EXCEPT ![t] = <<[instance |-> cls_instance,
                                      config |-> inst_config,
                                      environment |-> inst_environment]>>]
  /\ Goto(t, "done")
  /\ UNCHANGED <<cls_instance, cls_lock, inst_config, inst_environment,
                 load_count>>
  /\ CLFrame

InitConfig ==
  /\ clPc = [t \in Threads |-> "check"]
  /\ cls_instance = <<>> /\ cls_lock = 0
  /\ inst_config = "unset" /\ inst_environment = "unset"
  /\ load_count = 0
  /\ clRet = [t \in Threads |-> <<>>]
  /\ rnCall = NoRender /\ rnSheet = NoSheet
  /\ tasks = <<>> /\ exports = <<>>
  /\ peer = NoPeer /\ System_tasks_Inprogress = <<>> /\ download = <<>>
  /\ PTIdle /\ TMIdle /\ EXIdle

NextConfig ==
  \E t \in Threads :
    \/ CLCheck(t) \/ CLAcquire(t) \/ CLRecheck(t) \/ CLCreate(t)
    \/ CLLoadConfig(t) \/ CLLoadEnvironment(t) \/ CLExceptConfig(t)
    \/ CLExceptEnvironment(t) \/ CLRelease(t) \/ CLReturn(t)

SpecConfig == InitConfig /\ [][NextConfig]_vars


(***************************************************************************)
(* Properties of the dispatchers                                           *)
(***************************************************************************)
EventsOf(log, task_id) == {k \in 1..Len(log) : log[k].task = task_id}
Doc(task_id) == tasks[FirstWithId(tasks, task_id)]
FinalStatuses == {"Complete", "Failed"}

\* C1: in process_tasks the write of InProgress for a task precedes the
\* resolution and the invocation of its export function, every later status
\* write for the task is Complete or Failed, and every status change of a
\* document follows Open -> InProgress -> {Complete, Failed}.
C1_StatusOrder ==
  /\ \A k \in 1..Len(trace) :
       LET e == trace[k]
           earlier == {j \in EventsOf(trace, e.task) : j < k}
       IN  /\ e.ev \in {"resolve", "invoke"} =>
                \E j \in earlier : trace[j].ev = "write"
                                   /\ trace[j].val = "InProgress"
           /\ e.ev = "write" =>
                IF earlier = {} THEN e.val = "InProgress"
                ELSE e.val \in FinalStatuses
  /\ \A i \in 1..Len(task_list) :
       LET events == EventsOf(trace, task_list[i].Task_Id)
           writes == {k \in events : trace[k].ev = "write"}
           status == Doc(task_list[i].Task_Id).task_status
       IN  IF writes = {} THEN status = "Open"
           ELSE IF Cardinality(writes) = 1 THEN status = "InProgress"
           ELSE status \in FinalStatuses

C1_Witness ==
  /\ ptPc = "done"
  /\ \E t \in 1..Len(tasks) :
       /\ \E k \in EventsOf(trace, t) : trace[k].ev = "invoke"
       /\ tasks[t].task_status = "Complete"
  /\ \E t \in 1..Len(tasks) : tasks[t].task_status = "Failed"

\* C2: when process_tasks has returned, a task whose export function returned
\* true is Complete with the description "<name> completed with 0 errors", a
\* task whose export function raised is Failed with the exception message in
\* its description, and no task whose export function returned false or
\* raised is Complete.
C2_FinalStatus ==
  ptPc = "done" =>
    \A k \in 1..Len(trace) :
      trace[k].ev = "invoke" =>
        LET doc == Doc(trace[k].task)
            name == template_tasks[doc.Template_Task_Id]
        IN  /\ trace[k].val = "true" =>
                 /\ doc.task_status = "Complete"
                 /\ doc.task_description = CompletedDescription(name, 0)
            /\ trace[k].val = "raise" =>
                 /\ doc.task_status = "Failed"
                 /\ doc.task_description.kind = "failed"
                 /\ doc.task_description.msg = <<"export failed">>
            /\ trace[k].val \in {"false", "raise"} =>
                 doc.task_status # "Complete"

C2_Witness ==
  /\ ptPc = "done"
  /\ \E j, k \in 1..Len(trace) :
       /\ trace[j].ev = "invoke" /\ trace[j].val = "true"
       /\ trace[k].ev = "invoke" /\ trace[k].val = "raise"
       /\ Doc(trace[j].task).task_status = "Complete"
       /\ Doc(trace[k].task).task_status = "Failed"

\* The tasks a dispatcher has attempted: process_tasks reached the handler
\* resolution of the task, execute_tasks reached its handler lookup.
PTAttempted(task_id) ==
  \E k \in EventsOf(trace, task_id) : trace[k].ev = "resolve"
TMAttempted(task_id) ==
  \E k \in EventsOf(tmLog, task_id) : tmLog[k].ev \in {"handler", "error"}
InSeq(x, sq) == \E i \in 1..Len(sq) : sq[i] = x

\* C3: when either dispatcher has returned, it has attempted every open task
\* of its list, whatever the handlers of the earlier tasks did.
C3_AllAttempted ==
  /\ ptPc = "done" =>
       \A i \in 1..Len(task_list) : PTAttempted(task_list[i].Task_Id)
  /\ tmPc = "done" =>
       \A i \in 1..Len(tasks) :
         (tasks[i].task_status = "open"
          /\ InSeq(tasks[i].Template_Task_Id, template_ids))
         => TMAttempted(tasks[i].Task_Id)

C3_Witness ==
  /\ ptPc = "done" /\ Len(task_list) = 2
  /\ \E k \in EventsOf(trace, task_list[1].Task_Id) :
       trace[k].ev = "invoke" /\ trace[k].val = "raise"
  /\ \E k \in EventsOf(trace, task_list[2].Task_Id) :
       trace[k].ev = "invoke"

\* C4: when execute_tasks has returned, every task whose handler it called
\* has a completion or failure status in System_tasks.
C4_StatusWrittenBack ==
  tmPc = "done" =>
    \A k \in 1..Len(tmLog) :
      tmLog[k].ev = "handler" =>
        Doc(tmLog[k].task).task_status \in FinalStatuses

\* C5: in both dispatchers, a picked-up task whose template id has no handler
\* is Failed with a description when the dispatcher returns, and the other
\* tasks of the batch have been attempted.
C5_UnknownTypeFails ==
  /\ ptPc = "done" =>
       /\ \A k \in 1..Len(trace) :
            (trace[k].ev = "resolve" /\ trace[k].val = "ValueError") =>
              /\ Doc(trace[k].task).task_status = "Failed"
              /\ Doc(trace[k].task).task_description.kind = "failed"
       /\ \A i \in 1..Len(task_list) : PTAttempted(task_list[i].Task_Id)
  /\ tmPc = "done" =>
       /\ \A k \in 1..Len(tmLog) :
            (tmLog[k].ev = "error" /\ tmLog[k].task # 0) =>
              /\ Doc(tmLog[k].task).task_status = "Failed"
              /\ Doc(tmLog[k].task).task_description.kind # "none"
       /\ \A i \in 1..Len(tasks) :
            (tasks[i].task_status = "open"
             /\ InSeq(tasks[i].Template_Task_Id, template_ids))
            => TMAttempted(tasks[i].Task_Id)

AttemptedIn(log, task_id) ==
  \E k \in EventsOf(log, task_id) : log[k].ev = "resolve"
ResolvedIn(log, task_id) ==
  \E k \in EventsOf(log, task_id) :
    log[k].ev = "resolve" /\ log[k].val = "found"
InvokedIn(log, task_id) ==
  \E k \in EventsOf(log, task_id) : log[k].ev = "invoke"
FetchedBy(list, task_id) == \E i \in 1..Len(list) : list[i].Task_Id = task_id

\* C11: with two instances of process_tasks running concurrently on one
\* System_tasks collection, a task that both have fetched is picked up by
\* both, whichever wrote InProgress first: when both have returned, each has
\* resolved the task's export function and, where it found one, invoked it.
C11_BothInvoke ==
  (peer.id # 0 /\ ptPc = "done" /\ peer.pc = "done") =>
    \A i \in 1..Len(tasks) :
      (FetchedBy(task_list, i) /\ FetchedBy(peer.task_list, i)) =>
        /\ AttemptedIn(trace, i) /\ AttemptedIn(peer.trace, i)
        /\ ResolvedIn(trace, i) => InvokedIn(trace, i)
        /\ ResolvedIn(peer.trace, i) => InvokedIn(peer.trace, i)

\* the export function of one task has been invoked by both instances
C11_Witness ==
  /\ peer.id # 0 /\ ptPc = "done" /\ peer.pc = "done"
  /\ \E i \in 1..Len(tasks) : InvokedIn(trace, i) /\ InvokedIn(peer.trace, i)

\* The task a run was working on when it stopped: InProgress is written for
\* it and its final status is not.
StuckTask(r) == r.task_list[r.idx].Task_Id

CrashedMidTask(r) ==
  /\ r.pc = "crashed" /\ r.idx \in 1..Len(r.task_list)
  /\ \E k \in EventsOf(r.trace, StuckTask(r)) : r.trace[k].ev = "write"
  /\ \A k \in EventsOf(r.trace, StuckTask(r)) :
       r.trace[k].ev = "write" => r.trace[k].val = "InProgress"

\* C12: when a run of process_tasks has stopped between the write of
\* InProgress for a task and the write of its final status, the task stays
\* InProgress, also during and after the next run of process_tasks, and
\* that run neither fetches the task nor resolves or invokes its export
\* function.
C12_StuckInProgress ==
  /\ CrashedMidTask(Locals(1)) =>
       Doc(StuckTask(Locals(1))).task_status = "InProgress"
  /\ CrashedMidTask(peer) =>
       /\ Doc(StuckTask(peer)).task_status = "InProgress"
       /\ ~FetchedBy(task_list, StuckTask(peer))
       /\ EventsOf(trace, StuckTask(peer)) = {}

\* the run after the crash has returned, having processed another task
C12_Witness ==
  /\ CrashedMidTask(peer) /\ ptPc = "done"
  /\ Doc(StuckTask(peer)).task_status = "InProgress"
  /\ \E i \in 1..Len(tasks) : InvokedIn(trace, i)

(***************************************************************************)
(* Properties of the export functions                                      *)
(***************************************************************************)
Called(fn) == call.fn = fn /\ out # <<>>

\* The parameter checks of a call, without the date block
ChecksBeforeDates(c) ==
  CASE c.fn = "incident" ->
         IncidentStatusStage(IncidentActionStage(InitialStage, c.action_type),
                             c.status)
    [] c.fn = "approval" -> ApprovalTypeStage(InitialStage, c.approval_type)
    [] c.fn = "summary" ->
         SummaryBatchStage(
           SummaryDrcStage([InitialStage EXCEPT
                              !.query = [str_keys |-> EmptyDict,
                                         int_keys |-> EmptyDict]], c.drc),
           c.batch_id)
    [] c.fn = "handle_task_20" ->
         IncidentStatusStage(IncidentActionStage(InitialStage, c.action_type),
                             c.status)
    [] c.fn = "direct_lod" ->
         DirectLodRuleStage(InitialStage, c.drc_commision_rule)
    [] c.fn = "cpe" -> CpeRuleStage(InitialStage, c.drc_commision_rule)
    [] c.fn = "case" -> CaseStatusStage(InitialStage, c.case_current_status)
    [] c.fn = "request_log" ->
         RequestAcceptStage(
           RequestTypeStage(
             RequestDelegateStage(InitialStage, c.delegate_user_id),
             c.User_Interaction_Type),
           c.requestAccept)
    [] c.fn = "batch_approval" ->
         BatchApproverStage(InitialStage, c.approver_ref)
    [] c.fn = "batch_list" ->
         BatchListStage(InitialStage, c.case_distribution_batch_id)
    [] c.fn \in {"incident_open", "handle_task_21"} -> InitialStage
    [] c.fn = "rejected" ->
         RejectedRuleStage(RejectedActionsStage(InitialStage, c.actions),
                           c.actions, c.drc_commision_rule)
    [] c.fn = "pending_reject" ->
         PendingRulesStage(InitialStage, c.drc_commission_rules)
    [] c.fn = "case_distribution" ->
         DirectLodRuleStage(ArrearsBandStage(InitialStage, c.arrears_band),
                            c.drc_commision_rule)
    [] c.fn = "lod_reminder" ->
         LodDocumentStage(
           RejectedActionsStage(InitialStage, c.case_current_status),
           c.current_document_type)

\* The date parameters of a call (None for a function without dates)
FromDate(c) ==
  IF c.fn \in {"case", "request_log"} THEN c.date_from
  ELSE IF c.fn \in {"summary", "batch_approval", "batch_list",
                     "incident_open", "handle_task_21", "lod_reminder"}
  THEN None
  ELSE c.from_date
ToDate(c) ==
  IF c.fn \in {"case", "request_log"} THEN c.date_to
  ELSE IF c.fn \in {"summary", "batch_approval", "batch_list",
                     "incident_open", "handle_task_21", "lod_reminder"}
  THEN None
  ELSE c.to_date

DateLess(a, b) ==
  \/ a[1] < b[1]
  \/ (a[1] = b[1] /\ a[2] < b[2])
  \/ (a[1] = b[1] /\ a[2] = b[2] /\ a[3] < b[3])

\* Every supplied parameter of the call is one the function accepts, and
\* every supplied date parses, with to not earlier than from.
AllParametersValid(c) ==
  /\ \/ ChecksBeforeDates(c).err = NoError
     \/ ChecksBeforeDates(c).err[1] # "ValueError"
  /\ FromDate(c) # None => Parses(FromDate(c))
  /\ ToDate(c) # None => Parses(ToDate(c))
  /\ (FromDate(c) # None /\ ToDate(c) # None) =>
       ~DateLess(DateFields[ToDate(c)], DateFields[FromDate(c)])

RecordsFound(c) == IF c.fn = "approval" THEN Len(c.cases) ELSE c.nrec

\* C6: a call of an export function with valid parameters whose query finds
\* no record writes a report file without data rows and returns true.
C6_EmptyResultIsSuccess ==
  (out # <<>> /\ AllParametersValid(call) /\ RecordsFound(call) = 0) =>
     /\ out[1].ret = TRUE
     /\ Len(out[1].files) = 1
     /\ out[1].files[1].rows = 0

IncidentActionTypes ==
  {"collect arrears", "collect CPE", "collect arrears and CPE"}
IncidentCheckedStatuses ==
  {"Incident Open", "Reject", "Complete", "Incident Error",
   "Incident Inprogress"}

\* C7: excel_incident_detail called with an action_type or a status outside
\* the values it checks for returns false having caught a ValueError; it
\* writes no report file and inserts no audit record.
C7_InvalidParameter ==
  (Called("incident")
   /\ (call.action_type \notin IncidentActionTypes \cup {None}
       \/ call.status \notin IncidentCheckedStatuses \cup {None})) =>
     /\ out[1].ret = FALSE
     /\ out[1].err[1] = "ValueError"
     /\ out[1].files = <<>> /\ out[1].audits = <<>>
     /\ disk = <<>> /\ file_download_log = <<>>

C7_Witness ==
  /\ Called("incident") /\ call.action_type = "invalid_value"
  /\ call.status = None /\ call.from_date = None /\ call.to_date = None
  /\ out[1].ret = FALSE /\ ncalls = MaxCalls

\* C8: for two dates that parse, the date block rejects the pair as an
\* invalid range exactly when to is an earlier day than from; otherwise the
\* range predicate is [from 00:00:00, to 23:59:59].
C8_DateRange ==
  (out # <<>> /\ call.fn \in {"incident", "approval"}
   /\ ChecksBeforeDates(call).err = NoError
   /\ call.from_date # None /\ call.to_date # None
   /\ Parses(call.from_date) /\ Parses(call.to_date)) =>
     LET f == DateFields[call.from_date]
         t == DateFields[call.to_date]
         rejected == out[1].err = <<"ValueError",
                        "to_date cannot be earlier than from_date">>
     IN  /\ rejected <=> DateLess(t, f)
         /\ ~DateLess(t, f) =>
              /\ out[1].err = NoError
              /\ Len(out[1].queries) = 1
              /\ out[1].queries[1]["Created_Dtm"] =
                   Range(Datetime(f[1], f[2], f[3], 0, 0, 0),
                         Datetime(t[1], t[2], t[3], 23, 59, 59))

C8_Witness ==
  /\ Called("incident")
  /\ call.from_date = "2025-01-01" /\ call.to_date = "2025-01-01"
  /\ out[1].ret = TRUE
  /\ out[1].queries[1]["Created_Dtm"].lte = Datetime(2025, 1, 1, 23, 59, 59)

\* What a predicate of a query matches: equality, or the anchored pattern
\* of a literal.
Matches(pred, v) ==
  IF pred.op = "eq" THEN v = pred.value
  ELSE pred.op = "regex" /\ pred.pattern = <<"^", v, "$">>

DatesGiven(c) == c.from_date # None /\ c.to_date # None
DatesAbsent(c) == c.from_date = None /\ c.to_date = None

\* C9: for an action_type, a status and a date pair that excel_incident_detail
\* accepts (each possibly None), the query it runs has exactly the keys of
\* the parameters that are not None: Actions matching the action_type only,
\* Incident_Status matching the status only, Created_Dtm from from 00:00:00
\* to to 23:59:59; and the call ("collect CPE", None, "2025-01-01",
\* "2025-01-31") runs {Actions: "collect CPE", Created_Dtm: {$gte:
\* 2025-01-01T00:00:00, $lte: 2025-01-31T23:59:59}}.
C9_FilterFields ==
  (Called("incident") /\ AllParametersValid(call)
   /\ (DatesGiven(call) \/ DatesAbsent(call))) =>
     /\ Len(out[1].queries) = 1
     /\ LET q == out[1].queries[1]
            f == DateFields[call.from_date]
            t == DateFields[call.to_date]
        IN  /\ DOMAIN q =
                 (IF call.action_type # None THEN {"Actions"} ELSE {})
                 \cup (IF call.status # None THEN {"Incident_Status"} ELSE {})
                 \cup (IF DatesGiven(call) THEN {"Created_Dtm"} ELSE {})
            /\ call.action_type # None =>
                 \A v \in ActionInputs \ {None} :
                   Matches(q["Actions"], v) <=> v = call.action_type
            /\ call.status # None =>
                 \A v \in StatusInputs \ {None} :
                   Matches(q["Incident_Status"], v) <=> v = call.status
            /\ DatesGiven(call) =>
                 q["Created_Dtm"] =
                   Range(Datetime(f[1], f[2], f[3], 0, 0, 0),
                         Datetime(t[1], t[2], t[3], 23, 59, 59))
            /\ (call.action_type = "collect CPE" /\ call.status = None
                /\ call.from_date = "2025-01-01"
                /\ call.to_date = "2025-01-31") =>
                 q = [Actions |-> [op |-> "eq", value |-> "collect CPE"],
                      Created_Dtm |->
                        [op |-> "range",
                         gte |-> Datetime(2025, 1, 1, 0, 0, 0),
                         lte |-> Datetime(2025, 1, 31, 23, 59, 59)]]

C9_Witness ==
  /\ Called("incident")
  /\ call.action_type = "collect arrears and CPE"
  /\ call.status = "Incident Open"
  /\ call.from_date = "2024-12-31" /\ call.to_date = "2025-01-31"
  /\ DOMAIN out[1].queries[1] = {"Actions", "Incident_Status", "Created_Dtm"}

\* The statuses the module docstring of _20_incident.py gives as valid
DocumentedStatuses == {"Incident Open", "Incident close", "Incident reject"}

\* C10: excel_incident_detail accepts a status that is not None exactly
\* when it is one of the documented statuses.
C10_DocumentedStatuses ==
  (Called("incident") /\ call.status # None
   /\ call.action_type \in IncidentActionTypes \cup {None}) =>
     LET rejected == out[1].err = <<"ValueError", "Invalid status",
                                    call.status>>
     IN  ~rejected <=> call.status \in DocumentedStatuses

\* C13: the report files written by any two calls of one export function,
\* at the same clock reading or one after the other, have different names.
C13_UniqueFilenames ==
  \A i, j \in 1..Len(disk) : i # j => disk[i].name # disk[j].name

\* The inserts of a call succeed
InsertsSucceed(c) ==
  /\ "auditOk" \in DOMAIN c => c.auditOk
  /\ "recordOk" \in DOMAIN c => c.recordOk

\* The filter values the caller passed, as an audit record lists them
OriginalFilters(c) ==
  CASE c.fn \in {"incident", "handle_task_20"} ->
         [Action |-> c.action_type, Status |-> c.status,
          From_Date |-> c.from_date, To_Date |-> c.to_date]
    [] c.fn \in {"direct_lod", "cpe"} ->
         [From_Date |-> c.from_date, To_Date |-> c.to_date,
          DRC_Commsion_Rule |-> c.drc_commision_rule]
    [] c.fn = "rejected" ->
         [Actions |-> c.actions,
          DRC_Commision_Rule |-> c.drc_commision_rule,
          From_Date |-> c.from_date, To_Date |-> c.to_date]
    [] c.fn = "pending_reject" ->
         [DRC_Commision_Rule |-> c.drc_commission_rules,
          From_Date |-> c.from_date, To_Date |-> c.to_date]
    [] c.fn = "case_distribution" ->
         [Arrears_Band |-> c.arrears_band,
          DRC_commision_rule |-> c.drc_commision_rule,
          From_Date |-> c.from_date, To_Date |-> c.to_date]
    [] OTHER -> EmptyDict

\* C14: a call of an export function, or of the handler that wraps it, that
\* saves a report file inserts exactly one audit record (its inserts
\* succeeding), with the number of records the query returned and the
\* caller's parameter values as filters.
C14_OneAuditRecord ==
  (out # <<>> /\ out[1].files # <<>> /\ InsertsSucceed(call)) =>
    LET records == out[1].audits \o out[1].downloads
    IN  /\ Len(records) = 1
        /\ records[1].Exported_Record_Count = RecordsFound(call)
        /\ "Applied_Filters" \in DOMAIN records[1] =>
             records[1].Applied_Filters = OriginalFilters(call)
        /\ "Applied_Filters" \notin DOMAIN records[1] =>
             call.fn = "incident_open"

\* The audit insert of the export function of the call failed after the
\* report file was saved: every export function that inserts an audit record
AuditInsertFailed ==
  /\ out # <<>> /\ out[1].files # <<>>
  /\ call.fn \in {"incident", "cpe", "direct_lod", "batch_list",
                  "handle_task_20", "incident_open", "handle_task_21",
                  "rejected", "pending_reject", "case_distribution"}
  /\ ~call.auditOk

\* C15: when the audit insert of an export function fails after the report
\* file was saved, the function has caught no exception and returns true,
\* no audit record is stored and the file is in the report directory; when
\* the insert of handle_task_20 or handle_task_21 fails after a successful
\* export, the handler returns True and the file is in the report directory.
C15_AuditFailureNonFatal ==
  /\ AuditInsertFailed =>
       /\ out[1].ret = TRUE /\ out[1].err = NoError
       /\ out[1].audits = <<>>
       /\ call.fn \in {"cpe", "rejected", "pending_reject"} =>
            out[1].downloads = <<>>
       /\ \E k \in 1..Len(disk) : disk[k] = out[1].files[1]
  /\ (out # <<>> /\ call.fn \in {"handle_task_20", "handle_task_21"}
      /\ out[1].files # <<>> /\ ~call.recordOk) =>
       /\ out[1].handler_ret = "True" /\ out[1].downloads = <<>>
       /\ \E k \in 1..Len(disk) : disk[k] = out[1].files[1]

\* C16: no step of the program changes a field of a task document other
\* than task_status and task_description, and no step removes a document
\* from System_tasks or from System_tasks_Inprogress.
C16_OnlyStatusAndDescription ==
  [][/\ Len(tasks') = Len(tasks)
     /\ \A i \in 1..Len(tasks) :
          tasks'[i] = [tasks[i] EXCEPT
                         !.task_status = tasks'[i].task_status,
                         !.task_description = tasks'[i].task_description]
     /\ Len(System_tasks_Inprogress') = Len(System_tasks_Inprogress)]_vars

\* C17: when an export function reports a validation error, it has neither
\* created the export directory nor accessed the database.
C17_ValidationBeforeIO ==
  (out # <<>> /\ out[1].err # NoError /\ out[1].err[1] = "ValueError") =>
    /\ ~out[1].dir_created
    /\ ~out[1].db_accessed

\* C18: excel_direct_lod_detail returns true exactly when it has saved a
\* report file.
C18_DirectLodReturn ==
  Called("direct_lod") => (out[1].ret = TRUE <=> out[1].files # <<>>)

\* The case statuses the module docstring of request_response_log_list.py
\* gives as valid
DocumentedCaseStatuses == {"Pending FMB", "In progress", "Closed"}

\* C19: excel_case_detail called with a documented case status and dates
\* that are both absent or both valid runs a query that filters on Status,
\* saves the report and returns true.
C19_DocumentedCaseStatuses ==
  (Called("case") /\ call.case_current_status \in DocumentedCaseStatuses
   /\ AllParametersValid(call)
   /\ (call.date_from = None <=> call.date_to = None)) =>
     /\ out[1].ret = TRUE
     /\ Len(out[1].files) = 1
     /\ Len(out[1].queries) = 1
     /\ "Status" \in DOMAIN out[1].queries[1]
     /\ Matches(out[1].queries[1]["Status"], call.case_current_status)

\* C20: for valid from_date, to_date and drc_commision_rule, the query
\* excel_cpe_detail runs has Actions equal to "collect CPE".
C20_CpeActions ==
  (Called("cpe") /\ AllParametersValid(call)) =>
     /\ Len(out[1].queries) = 1
     /\ out[1].queries[1]["Actions"] = Eq("collect CPE")

(***************************************************************************)
(* Properties of the renderers                                             *)
(***************************************************************************)
\* What each row of a sheet holds, from row 1 to the last row written
LastRow(sh) ==
  IF sh.header_row # 0 THEN sh.header_row + sh.data_rows
  ELSE IF sh.filter_rows # <<>> THEN sh.filter_rows[Len(sh.filter_rows)].row
  ELSE sh.title_row

SheetRows(sh) ==
  [r \in 1..LastRow(sh) |->
     IF r = sh.title_row THEN "title"
     ELSE IF \E i \in 1..Len(sh.filter_rows) : sh.filter_rows[i].row = r
     THEN "filter"
     ELSE IF r = sh.header_row THEN "header"
     ELSE IF sh.header_row # 0 /\ r > sh.header_row THEN "data"
     ELSE "blank"]

RowsOf(sh, kind) == {r \in DOMAIN SheetRows(sh) : SheetRows(sh)[r] = kind}

\* A filter value that is not null: a string other than None, an integer
\* that is given, a date range with at least one end
NonNull(key, v) ==
  IF key = "date_range" THEN v[1] # <<>> \/ v[2] # <<>>
  ELSE IF key \in {"case_distribution_batch_id", "drc_commission_rules"}
  THEN v # <<>>
  ELSE v # None

NonNullKeys(filters) == {k \in DOMAIN filters : NonNull(k, filters[k])}

\* C21: create_incident_table on an empty record list with filters builds a
\* sheet of exactly one title row, one filter row per non-null filter among
\* action, status and date range, one header row and no data row (the rows
\* between them are left blank, and the call succeeds).
C21_EmptyListLayout ==
  (rnCall.fn = "incident" /\ rnSheet # NoSheet /\ rnCall.ndata = 0
   /\ rnCall.filters # EmptyDict)
  => /\ rnSheet.ok
     /\ Cardinality(RowsOf(rnSheet, "title")) = 1
     /\ Cardinality(RowsOf(rnSheet, "filter"))
          = Cardinality(NonNullKeys(rnCall.filters))
     /\ Cardinality(RowsOf(rnSheet, "header")) = 1
     /\ RowsOf(rnSheet, "data") = {}
     /\ \A k \in NonNullKeys(rnCall.filters) :
          \E i \in 1..Len(rnSheet.filter_rows) :
            rnSheet.filter_rows[i].key = k

C21_Witness ==
  /\ rnCall.fn = "incident" /\ rnSheet # NoSheet /\ rnCall.ndata = 0
  /\ DOMAIN rnCall.filters = {"action", "status", "date_range"}
  /\ rnCall.filters.action # None /\ rnCall.filters.status = None
  /\ rnCall.filters.date_range[1] # <<>>
  /\ Len(rnSheet.filter_rows) = 2

\* The parameters of a call that become filters of its sheet
SuppliedFilters(o) == NonNullKeys(o.filters)

DisplayedKeys(sh) == {sh.filter_rows[i].key : i \in 1..Len(sh.filter_rows)}

\* C22: the sheet an export function renders has exactly one filter row for
\* each filter the function passes to its renderer with a value that is not
\* null, and no row for a null one.
C22_FilterRowPerFilter ==
  (out # <<>> /\ out[1].rendered) =>
    /\ DisplayedKeys(out[1].sheet) = SuppliedFilters(out[1])
    /\ \A i, j \in 1..Len(out[1].sheet.filter_rows) :
         out[1].sheet.filter_rows[i].key = out[1].sheet.filter_rows[j].key
           => i = j

\* C23: the sheet an export function renders, for any number of records
\* including none, has an autofilter range that covers the header row.
C23_AutofilterSet ==
  (out # <<>> /\ out[1].rendered) =>
    /\ out[1].sheet.auto_filter # <<>>
    /\ out[1].sheet.auto_filter[1] = out[1].sheet.header_row

\* C24: excel_cpe_detail runs no query when a from_date or a to_date that is
\* given does not parse as YYYY-MM-DD, whether or not the other is None.
C24_CpeNoQueryOnBadDate ==
  (Called("cpe")
   /\ ((call.from_date # None /\ ~Parses(call.from_date))
       \/ (call.to_date # None /\ ~Parses(call.to_date)))) =>
    out[1].queries = <<>>

\* The filter fields with more than one acceptable value, per export
\* function: the parameter, its acceptable values as the call passes them,
\* and whether the value is an integer (passed as <<n>>).
MultiValuedFields ==
  {[fn |-> "incident", param |-> "action_type", int |-> FALSE,
    values |-> {"collect arrears and CPE", "collect arrears", "collect CPE"}],
   [fn |-> "incident", param |-> "status", int |-> FALSE,
    values |-> {"Incident Open", "Reject", "Complete", "Incident Error",
                "Incident Inprogress"}],
   [fn |-> "approval", param |-> "approval_type", int |-> FALSE,
    values |-> {"a1", "a2"}],
   [fn |-> "summary", param |-> "drc", int |-> FALSE,
    values |-> {"D1", "D2"}],
   [fn |-> "summary", param |-> "batch_id", int |-> TRUE,
    values |-> {<<1>>, <<2>>, <<3>>}],
   [fn |-> "direct_lod", param |-> "drc_commision_rule", int |-> FALSE,
    values |-> {"PEO TV", "BB"}],
   [fn |-> "cpe", param |-> "drc_commision_rule", int |-> FALSE,
    values |-> {"PEO TV", "BB"}],
   [fn |-> "case", param |-> "case_current_status", int |-> FALSE,
    values |-> {"Pending FMB", "In progress", "Closed"}],
   [fn |-> "request_log", param |-> "User_Interaction_Type", int |-> FALSE,
    values |-> {"FMB", "RO", "Admin"}],
   [fn |-> "request_log", param |-> "requestAccept", int |-> FALSE,
    values |-> {"Approved", "Pending", "Rejected"}],
   [fn |-> "batch_approval", param |-> "approver_ref", int |-> FALSE,
    values |-> {"k1", "k2"}],
   [fn |-> "batch_list", param |-> "case_distribution_batch_id",
    int |-> TRUE, values |-> {<<1>>, <<2>>}],
   [fn |-> "rejected", param |-> "actions", int |-> FALSE,
    values |-> {"collect arrears and CPE", "collect arrears", "collect CPE"}],
   [fn |-> "rejected", param |-> "drc_commision_rule", int |-> FALSE,
    values |-> {"PEO TV", "BB"}],
   [fn |-> "case_distribution", param |-> "arrears_band", int |-> FALSE,
    values |-> {"AB-5_10", "AB-25_50"}],
   [fn |-> "case_distribution", param |-> "drc_commision_rule",
    int |-> FALSE, values |-> {"PEO TV", "BB"}]}

SummaryStage ==
  [InitialStage EXCEPT !.query = [str_keys |-> EmptyDict,
                                  int_keys |-> EmptyDict]]

\* What the validation branch of parameter param of function fn adds to an
\* empty query when the parameter is v
StagedQuery(fn, param, v) ==
  CASE fn = "incident" /\ param = "action_type" ->
         IncidentActionStage(InitialStage, v).query
    [] fn = "incident" /\ param = "status" ->
         IncidentStatusStage(InitialStage, v).query
    [] fn = "approval" -> ApprovalTypeStage(InitialStage, v).query
    [] fn = "summary" /\ param = "drc" ->
         SummaryDrcStage(SummaryStage, v).query.str_keys
    [] fn = "summary" /\ param = "batch_id" ->
         SummaryBatchStage(SummaryStage, v).query.int_keys
    [] fn = "direct_lod" -> DirectLodRuleStage(InitialStage, v).query
    [] fn = "cpe" -> CpeRuleStage(InitialStage, v).query
    [] fn = "case" -> CaseStatusStage(InitialStage, v).query
    [] fn = "request_log" /\ param = "User_Interaction_Type" ->
         RequestTypeStage(InitialStage, v).query
    [] fn = "request_log" /\ param = "requestAccept" ->
         RequestAcceptStage(InitialStage, v).query
    [] fn = "batch_approval" -> BatchApproverStage(InitialStage, v).query
    [] fn = "batch_list" -> BatchListStage(InitialStage, v).query
    [] fn = "rejected" /\ param = "actions" ->
         RejectedActionsStage(InitialStage, v).query
    [] fn = "rejected" /\ param = "drc_commision_rule" ->
         RejectedRuleStage(InitialStage, None, v).query
    [] fn = "case_distribution" /\ param = "arrears_band" ->
         ArrearsBandStage(InitialStage, v).query
    [] fn = "case_distribution" /\ param = "drc_commision_rule" ->
         DirectLodRuleStage(InitialStage, v).query

OnlyPredicate(m, v, field, pred) ==
  LET q == StagedQuery(m.fn, m.param, v)
  IN  DOMAIN q = {field} /\ q[field] = pred

PlainValue(m, v) == IF m.int THEN v[1] ELSE v

OneCanonical(m) ==
  \E field \in UNION {DOMAIN StagedQuery(m.fn, m.param, v) : v \in m.values} :
    \E c \in m.values :
      /\ OnlyPredicate(m, c, field, Regex(PlainValue(m, c)))
      /\ \A v \in m.values \ {c} :
           OnlyPredicate(m, v, field, Eq(PlainValue(m, v)))

\* C25: for every filter field with more than one acceptable value, in every
\* report type, exactly one acceptable value yields an anchored-pattern
\* predicate and every other acceptable value yields a plain-equality
\* predicate on that same field.
C25_OneCanonicalValue ==
  \A m \in MultiValuedFields :
    (out # <<>> /\ call.fn = m.fn /\ call[m.param] \in m.values)
      => OneCanonical(m)

\* C26: with two instances of process_tasks running concurrently on the same
\* collection, a task whose status is Complete or Failed keeps that status in
\* every later step; in particular no instance writes InProgress over it.
C26_FinalStatusKept ==
  [][\A i \in 1..Len(tasks) :
       tasks[i].task_status \in FinalStatuses
         => tasks'[i].task_status = tasks[i].task_status]_vars

\* C27: process_tasks contains the failure of the store write that records
\* Failed and a fetched document without Task_Id: it never raises, and when it
\* ends it has gone through every task it fetched and returns a result.
C27_FaultsContained ==
  /\ ptPc # "raised"
  /\ ptPc = "done" => (ptIdx > Len(task_list) /\ ptReturn # None)

\* C28: when process_tasks ends, total_error_count is the number of tasks that
\* ended with status Failed: a task adds at most one error, whether its
\* handler returned false or raised.
C28_ErrorsCountFailedTasks ==
  ptPc = "done" =>
    total_error_count
      = Cardinality({i \in 1..Len(tasks) : tasks[i].task_status = "Failed"})

\* C29: the export file process_tasks records on a task (export_path,
\* export_filename) was written by the handler invocation of that task: it is
\* not a file an earlier export left, nor a file of another report type.
C29_OwnFileRecorded ==
  \A i \in 1..Len(tasks) :
    tasks[i].export # <<>> =>
      /\ tasks[i].export[1].file.by = tasks[i].Task_Id
      /\ tasks[i].export[1].file.name
           = file_prefixes[tasks[i].Template_Task_Id]

\* The load of the configuration has finished on the instance a caller got:
\* environment is the last attribute _load_config sets on either path.
LoadFinished(r) == r.environment # "unset"

\* C30: when several threads construct ConfigLoaderSingleton concurrently,
\* _load_config runs once, every caller receives the same instance, and no
\* caller receives it before _load_config has set config and environment.
C30_SingletonLoadedOnce ==
  /\ load_count <= 1
  /\ \A t \in Threads :
       clRet[t] # <<>> =>
         /\ load_count = 1
         /\ clRet[t][1].instance # <<>>
         /\ \A u \in Threads :
              clRet[u] # <<>> => clRet[u][1].instance = clRet[t][1].instance
         /\ LoadFinished(clRet[t][1])

=============================================================================
